---- MODULE Spec2Model ----
(***************************************************************************)
(* A model of beboa_bot's memory pipeline and personality system.          *)
(*                                                                         *)
(*   - message ingestion          (src/src/services/messageIngestion.js)   *)
(*   - the embedding queue worker (src/src/services/serverMemory.js,       *)
(*                                 second half: "Embedding Queue Service") *)
(*   - relationships, moods and trait evolution (src/unnamed/part_005,     *)
(*                                 src/src/services/llmEvaluator.js)       *)
(*   - semantic search            (src/src/services/memory.js,             *)
(*                                 serverMemory.js, src/unnamed/part_003)  *)
(*   - the summarizer's topics    (src/src/services/messageIngestion.js,   *)
(*                                 second half: "Summarizer Service")      *)
(*                                                                         *)
(* SpecQueue runs ingestion together with the queue worker, SpecIngest     *)
(* runs ingestion alone and records what each call returned, SpecBatch     *)
(* runs the worker on batches of two with room for two statement failures, *)
(* SpecRel runs the interaction handler of the personality system,         *)
(* SpecPersonality the mood and trait calls over time, SpecSearch the      *)
(* searches and SpecTopics the summary passes.                             *)
(*                                                                         *)
(* Storage is SQLite through better-sqlite3: every statement is            *)
(* synchronous, and a handler runs to its next await without interleaving. *)
(* A statement may throw; the model injects such faults through a "plan"   *)
(* (the set of statements that throw in one run of a handler), and the     *)
(* total number of faults of a behaviour is bounded by faultBudget.        *)
(*                                                                         *)
(* Importance scores are in hundredths (0.30 is 30): the scorer adds       *)
(* multiples of 0.01, and the queue priority is round(score * 100).        *)
(* Relationship numbers, trait values and LLM deltas are in thousandths.   *)
(***************************************************************************)
EXTENDS Integers, Sequences, FiniteSets, TLC

\* ---------------------------------------------------------------- bounds
MaxMessages == 1        \* distinct external message ids delivered
MaxIngest == 2          \* accepted deliveries counted in channel_metadata
MaxFaults == 1          \* storage statements that throw in one behaviour
MaxTimeouts == 1        \* initial-run timeouts (setTimeout) outstanding at once
MaxInflight == 2        \* processBatch invocations suspended in the embedding call
MaxInteractions == 2    \* updateRelationship calls made or under way for one user
MaxConcurrent == 1      \* processInteraction calls suspended at an await at once
BatchSize == 1          \* config.EMBEDDING_BATCH_SIZE of the modelled deployment
MaxNow == 83            \* the last instant of the clock, in ticks of 15 seconds
MaxEvolves == 2         \* evolveTrait calls made on their own
MaxStored == 2          \* stored memories and embedded server messages together
MaxSearches == 1        \* searches suspended at an await at once
MaxDays == 9            \* the last day of the summarizer's clock
MaxMentions == 2        \* mention_count a topic reaches
MaxChannels == 1        \* channels with activity that one summary pass finds
MaxPasses == 1          \* summary passes suspended at an await at once
MaxNoticed == 3         \* messages of the last hour that getAmbientContext reads
MaxOverlap == 2         \* processInteraction calls of one user that overlap
MaxTimers == 4          \* timers the summary scheduler creates
MaxStops == 2           \* stopScheduler calls

\* ------------------------------------------------------ program constants
IMPORTANCE_THRESHOLD == 30      \* shouldEmbed: config.IMPORTANCE_THRESHOLD || 0.3
MAX_RETRIES == 3                \* processBatch: item.retry_count < 3

Null == "null"

VARIABLES
    \* configuration (fixed for a behaviour)
    SERVER_MEMORY_ENABLED,  \* config.SERVER_MEMORY_ENABLED
    embeddingAvailable,     \* isEmbeddingAvailable(): API key and model configured
    EMBEDDING_BATCH_SIZE,   \* config.EMBEDDING_BATCH_SIZE
    faultBudget,            \* environment: how many storage statements throw in this behaviour
    \* durable tables
    server_messages,        \* Seq of rows; the row id is the index (AUTOINCREMENT, never deleted)
    channel_metadata,       \* total_messages of the tracked channel
    embedding_queue,        \* Seq of rows in insertion order, each with its own id
    nextQueueId,            \* AUTOINCREMENT counter of embedding_queue
    server_embeddings,      \* Seq of vector rows [message_id]
    \* process memory of the queue service
    isProcessing,           \* the "already running" flag
    processorInterval,      \* TRUE when the setInterval handle is set
    pendingTimeouts,        \* setTimeout(processBatch, 5000) callbacks not yet run
    inflight,               \* Seq of batches suspended at `await generateEmbedding`
    \* observation
    droppedTrigger,         \* a processBatch call returned "Already processing" during this batch
    ingestionDb,            \* messageIngestion.js `db`/`statements`: "closed", "ready" or "prepare_failed"
    ingestResult,           \* what the last observed ingestMessage call returned, and what threw in it
    faultsUsed,             \* storage statements that have thrown so far
    lastBatch,              \* the batch processBatch finished last: its items, whether the
                            \* embedding call succeeded, and the statements that threw
    \* personality system (src/unnamed/part_005)
    user_relationships,     \* user id -> row of user_relationships, or NoRow
    relationshipCache,      \* user id -> the data relationshipCache holds, or NoRow
    personality_state,      \* the single row of personality_state, with the rows of
                            \* personality_evolution in insertion order
    interactions,           \* Seq of processInteraction calls suspended at an await
    lastInteraction,        \* what the last completed processInteraction did
    \* personality state over time (src/unnamed/part_005, 193-386)
    now,                    \* Date.now(), in ticks of 15 seconds
    mood_started_at,        \* personality_state.mood_started_at, in the same ticks
    personalityCache,       \* the cached answer of getPersonalityState, or Null
    lastCacheUpdate,        \* when personalityCache was filled
    evolveCalls,            \* evolveTrait calls made on their own so far
    lastRead,               \* what the last getPersonalityState call saw and returned
    \* semantic search (src/src/services/memory.js, serverMemory.js 1-290)
    semantic_memories,      \* Seq of rows of semantic_memories joined with memory_embeddings
    embeddingCache,         \* memory.js embeddingCache, in Map insertion order
    cacheExpired,           \* memory.js: Date.now() - cacheLastUpdated > CACHE_TTL
    guild_vectors,          \* Seq of the embedded server messages, oldest first
    serverEmbeddingCache,   \* serverMemory.js embeddingCache, in Map insertion order
    serverCacheExpired,     \* serverMemory.js: now - lastCacheRefresh >= CACHE_TTL
    memoryAged,             \* more than CACHE_TTL has passed since the last storeMemory
    vectorAged,             \* more than CACHE_TTL has passed since the last stored vector
    refreshedSinceWrite,    \* lastCacheRefresh is later than the last stored vector
    searches,               \* Seq of searches suspended at an await
    lastSearch,             \* what the last completed search was asked and returned,
                            \* while the stores and caches are as that search left them
    \* summarizer (second half of src/src/services/messageIngestion.js, 404-830)
    topicsUnique,           \* the database's active_topics has UNIQUE(guild_id, topic_name)
    summarizerDb,           \* the summarizer's `db`/`statements`: "closed", "ready" or "prepare_failed"
    active_topics,          \* <<guild_id, topic_name>> -> row of active_topics, or NoTopic
    channel_summaries,      \* the <<guild_id, period_type>> a summary is stored for
    passes,                 \* Seq of summary passes suspended at `await generateSummary`
    today,                  \* datetime('now'), in days
    lastTopicStep,          \* the statements the last summarizer step ran on active_topics,
                            \* and the status each topic had before it
    \* ambient context (src/src/services/serverMemory.js, 174-234)
    recent_messages,        \* Seq of the guild's server_messages rows of the last hour,
                            \* oldest first: the row id and discord_created_at are the index
    lastAmbient,            \* what the last getAmbientContext call returned
    \* summary scheduler (src/src/services/messageIngestion.js, 724-776)
    timers,                 \* Seq of the timers startScheduler and its callbacks created:
                            \* a timeout is live until it fires, an interval until cleared
    hourlyInterval,         \* the handle kept: the index of an interval in timers, 0 for null
    dailyInterval,          \* the same for the daily summaries
    stops,                  \* stopScheduler calls returned so far
    lastRun                 \* the summary run a timer triggered last: the timer's kind, the
                            \* stops before the startScheduler it stems from, and the stops now

queueVars == <<SERVER_MEMORY_ENABLED, embeddingAvailable, EMBEDDING_BATCH_SIZE,
               faultBudget, server_messages,
               channel_metadata, embedding_queue, nextQueueId, server_embeddings,
               isProcessing, processorInterval, pendingTimeouts, inflight,
               droppedTrigger, ingestionDb, ingestResult, faultsUsed, lastBatch>>

relVars == <<user_relationships, relationshipCache, personality_state, interactions,
            lastInteraction>>

moodVars == <<now, mood_started_at, personalityCache, lastCacheUpdate, evolveCalls,
              lastRead>>

searchVars == <<semantic_memories, embeddingCache, cacheExpired, guild_vectors,
                serverEmbeddingCache, serverCacheExpired, searches, lastSearch,
                memoryAged, vectorAged, refreshedSinceWrite>>

topicVars == <<topicsUnique, summarizerDb, active_topics, channel_summaries, passes,
               today, lastTopicStep>>

ambientVars == <<recent_messages, lastAmbient>>

schedulerVars == <<timers, hourlyInterval, dailyInterval, stops, lastRun>>

\* what the actions of one subsystem leave alone
queueRest == <<relVars, moodVars, searchVars, topicVars, ambientVars, schedulerVars>>

relRest == <<queueVars, moodVars, searchVars, topicVars, ambientVars, schedulerVars>>

moodRest == <<queueVars, searchVars, topicVars, ambientVars, schedulerVars>>

searchRest == <<queueVars, relVars, moodVars, topicVars, ambientVars, schedulerVars>>

topicRest == <<queueVars, relVars, moodVars, searchVars, ambientVars, schedulerVars>>

ambientRest == <<queueVars, relVars, moodVars, searchVars, topicVars, schedulerVars>>

vars == <<queueVars, relVars, moodVars, searchVars, topicVars, ambientVars, schedulerVars>>

\* --------------------------------------------------------------- helpers
RECURSIVE SubsetsUpTo(_, _)
\* the subsets of P with at most k elements
SubsetsUpTo(P, k) ==
    IF k <= 0 THEN {{}}
    ELSE LET prev == SubsetsUpTo(P, k - 1)
         IN prev \cup {s \cup {a} : s \in prev, a \in P}

\* a plan is the set of statements that throw in one run of a handler
FaultPlans(points) == SubsetsUpTo(points, faultBudget - faultsUsed)

\* ------------------------------------------------------- message ingestion
ExtIds == 1..MaxMessages
\* what a delivered text is and what calculateImportanceScore returns for it at
\* that moment: below the threshold, at the threshold, above it
Scored == { [content |-> "a", score |-> 10],
            [content |-> "b", score |-> 30],
            [content |-> "c", score |-> 80] }

\* the texts delivered while the queue worker runs: one the worker never
\* sees (below the threshold) and one it embeds
QueueScored == { [content |-> "a", score |-> 10],
                 [content |-> "b", score |-> 30] }

SERVER_MEMORY_EXCLUDED_CHANNELS == {"excluded"}
SERVER_MEMORY_CHANNELS == {}

Delivery(id, content, score, bot, guild, channel) ==
    [id |-> id, content |-> content, score |-> score, bot |-> bot, guild |-> guild,
     channel |-> channel]

Accepted(scored) == {Delivery(i, t.content, t.score, FALSE, TRUE, "general") :
                        i \in ExtIds, t \in scored}

\* one message of each kind the prechecks skip
Rejected ==
    { Delivery(1, "c", 80, TRUE,  TRUE,  "general"),
      Delivery(1, "",  0,  FALSE, TRUE,  "general"),
      Delivery(1, "c", 80, FALSE, FALSE, "general"),
      Delivery(1, "c", 80, FALSE, TRUE,  "excluded") }

\* the messages delivered to ingestMessage
Deliveries == Accepted(Scored) \cup Rejected

QueueDeliveries == Accepted(QueueScored) \cup Rejected

IngestStmts == {"newDatabase", "prepare", "insertMessage", "updateChannelMetadata",
                "getMessageById", "queueForEmbedding"}

\* return score >= importanceThreshold
shouldEmbed(score) == score >= IMPORTANCE_THRESHOLD

\* { skipped: true, reason }
Skipped(reason) == [kind |-> "skipped", reason |-> reason, stored |-> FALSE,
                    willEmbed |-> FALSE]

\* { success: true, messageId, importanceScore, willEmbed, stored }
Success(stored, willEmbed) == [kind |-> "success", reason |-> Null,
                               stored |-> stored, willEmbed |-> willEmbed]

\* the call ends with an exception (a rejected promise)
Threw == [kind |-> "threw", reason |-> Null, stored |-> FALSE, willEmbed |-> FALSE]

\* INSERT OR REPLACE: a row whose message_id exists is overwritten
insertMessageReplace(m, msg, status) ==
    IF \E i \in DOMAIN m : m[i].message_id = msg.id
    THEN [i \in DOMAIN m |->
            IF m[i].message_id = msg.id
            THEN [message_id |-> msg.id, content |-> msg.content,
                  importance_score |-> msg.score, embedding_status |-> status]
            ELSE m[i]]
    ELSE Append(m, [message_id |-> msg.id, content |-> msg.content,
                    importance_score |-> msg.score, embedding_status |-> status])

\* INSERT OR IGNORE INTO server_messages: a row whose message_id exists is kept
insertMessage(m, msg, status) ==
    IF \E i \in DOMAIN m : m[i].message_id = msg.id
    THEN m
    ELSE Append(m, [message_id |-> msg.id, content |-> msg.content,
                    importance_score |-> msg.score, embedding_status |-> status])

\* INSERT OR IGNORE INTO embedding_queue (message_id, priority, status)
queueForEmbedding(q, qid, mid, priority) ==
    Append(q, [id |-> qid, message_id |-> mid, priority |-> priority,
               retry_count |-> 0, status |-> "pending", processed_at |-> Null,
               failedAttempts |-> 0])

\* the database as ingestMessage sees it
IngestDb == [conn |-> ingestionDb, m |-> server_messages, meta |-> channel_metadata,
             q |-> embedding_queue, qid |-> nextQueueId, hit |-> {}]

\* the try block of ingestMessage: [db, thrown, result]
ingestTry(db, msg, plan) ==
    LET importanceScore == msg.score    \* calculateImportanceScore(message, channelState)
        willEmbed == shouldEmbed(importanceScore)
        embeddingStatus == IF willEmbed THEN "pending" ELSE "skipped"
        Throw(d, stmt) == [db |-> [d EXCEPT !.hit = @ \cup {stmt}], thrown |-> TRUE,
                           result |-> Threw]
    IN  IF "insertMessage" \in plan THEN Throw(db, "insertMessage")
        ELSE
        LET m1 == insertMessage(db.m, msg, embeddingStatus)
            changes == Len(m1) - Len(db.m)
            d1 == [db EXCEPT !.m = m1]
            \* the metadata update has its own try/catch: a failure is logged only
            d2 == IF "updateChannelMetadata" \in plan
                  THEN [d1 EXCEPT !.hit = @ \cup {"updateChannelMetadata"}]
                  ELSE [d1 EXCEPT !.meta = @ + 1]
        IN  IF willEmbed /\ changes > 0
            THEN IF "getMessageById" \in plan THEN Throw(d2, "getMessageById")
                 ELSE IF "queueForEmbedding" \in plan THEN Throw(d2, "queueForEmbedding")
                 ELSE [db |-> [d2 EXCEPT !.q = queueForEmbedding(@, d2.qid, Len(m1), importanceScore),
                                         !.qid = @ + 1],
                       thrown |-> FALSE,
                       result |-> Success(TRUE, willEmbed)]
            ELSE [db |-> d2, thrown |-> FALSE, result |-> Success(changes > 0, willEmbed)]

\* the body of ingestMessage without its catch block
ingestNoCatch(r) == r

\* try { ... } catch (error) { return { skipped: true, reason: 'error' } }
ingestCatch(r) ==
    IF r.thrown THEN [r EXCEPT !.thrown = FALSE, !.result = Skipped("error")] ELSE r

\* initDatabase() returns at once when `db` is set and catches its own error:
\* a failed open leaves `db` unset, a failed prepare leaves `db` set and
\* `statements` unset for good
initDatabase(db, plan) ==
    IF db.conn # "closed" THEN db
    ELSE IF "newDatabase" \in plan THEN [db EXCEPT !.hit = @ \cup {"newDatabase"}]
    ELSE IF "prepare" \in plan
         THEN [db EXCEPT !.conn = "prepare_failed", !.hit = @ \cup {"prepare"}]
    ELSE [db EXCEPT !.conn = "ready"]

ingestMessage(db, msg, plan) ==
    LET none(reason) == [db |-> db, thrown |-> FALSE, result |-> Skipped(reason)]
    IN  IF ~SERVER_MEMORY_ENABLED THEN none("disabled")
        ELSE IF msg.bot THEN none("bot")
        ELSE IF msg.content = "" THEN none("empty")
        ELSE IF ~msg.guild THEN none("dm")
        ELSE IF msg.channel \in SERVER_MEMORY_EXCLUDED_CHANNELS THEN none("excluded_channel")
        ELSE IF SERVER_MEMORY_CHANNELS # {} /\ msg.channel \notin SERVER_MEMORY_CHANNELS
             THEN none("not_in_allowlist")
        ELSE LET opened == initDatabase(db, plan)
             IN  \* if (!statements) return { skipped: true, reason: 'db_not_ready' }
                 IF opened.conn # "ready"
                 THEN [db |-> opened, thrown |-> FALSE, result |-> Skipped("db_not_ready")]
                 ELSE ingestCatch(ingestTry(opened, msg, plan))

\* observed: whether the value returned to the caller is recorded
IngestMessage(observed, deliveries) ==
    /\ channel_metadata < MaxIngest
    /\ \E msg \in deliveries, plan \in FaultPlans(IngestStmts) :
         \* external ids are opaque: a message not seen before takes the next one
         /\ msg.id <= Len(server_messages) + 1
         /\ LET r == ingestMessage(IngestDb, msg, plan) IN
            /\ r.db.hit = plan
            /\ ingestionDb' = r.db.conn
            /\ server_messages' = r.db.m
            /\ channel_metadata' = r.db.meta
            /\ embedding_queue' = r.db.q
            /\ nextQueueId' = r.db.qid
            /\ faultsUsed' = faultsUsed + Cardinality(r.db.hit)
            /\ ingestResult' = IF observed THEN [returned |-> r.result, threw |-> r.db.hit]
                                ELSE ingestResult
    /\ UNCHANGED <<SERVER_MEMORY_ENABLED, embeddingAvailable, EMBEDDING_BATCH_SIZE,
                   faultBudget, lastBatch, server_embeddings,
                   isProcessing, processorInterval, pendingTimeouts, inflight,
                   droppedTrigger, queueRest>>

\* ------------------------------------------------------ embedding queue
Terminal == {"completed", "failed"}

\* ORDER BY eq.priority DESC, eq.created_at ASC (created_at follows insertion)
Before(a, b) == a.priority > b.priority \/ (a.priority = b.priority /\ a.id < b.id)

RECURSIVE TakeOrdered(_, _)
TakeOrdered(S, n) ==
    IF n = 0 \/ S = {} THEN <<>>
    ELSE LET first == CHOOSE r \in S : \A o \in S \ {r} : Before(r, o)
         IN <<first>> \o TakeOrdered(S \ {first}, n - 1)

\* the same query without `WHERE eq.status = 'pending'`
getPendingQueueAnyStatus(q, limit) ==
    TakeOrdered({q[i] : i \in DOMAIN q}, limit)

\* SELECT ... FROM embedding_queue eq JOIN server_messages sm
\* WHERE eq.status = 'pending' ORDER BY ... LIMIT ?
getPendingQueue(q, limit) ==
    TakeOrdered({q[i] : i \in {j \in DOMAIN q : q[j].status = "pending"}}, limit)

\* UPDATE embedding_queue SET status = ?, processed_at = datetime('now') WHERE id = ?
updateQueueStatus(q, id, status) ==
    [i \in DOMAIN q |->
        IF q[i].id = id THEN [q[i] EXCEPT !.status = status, !.processed_at = "recent"]
        ELSE q[i]]

\* an incrementRetry that leaves retry_count as it is
incrementRetryKeepsCount(q, id) == q

\* UPDATE embedding_queue SET retry_count = retry_count + 1 WHERE id = ?
incrementRetry(q, id) ==
    [i \in DOMAIN q |->
        IF q[i].id = id THEN [q[i] EXCEPT !.retry_count = @ + 1] ELSE q[i]]

\* UPDATE server_messages SET embedding_status = ? WHERE id = ?
updateMessageStatus(m, mid, status) ==
    [i \in DOMAIN m |-> IF i = mid THEN [m[i] EXCEPT !.embedding_status = status] ELSE m[i]]

\* INSERT INTO server_embeddings (message_id, embedding, source_text, source_type)
storeEmbedding(e, mid) == Append(e, [message_id |-> mid])

\* the database as the continuation of processBatch sees it
BatchDb == [m |-> server_messages, q |-> embedding_queue, e |-> server_embeddings,
            hit |-> 0, thrown |-> FALSE]

Fault(d) == [d EXCEPT !.hit = @ + 1, !.thrown = TRUE]

\* the failure branch with `item.retry_count <= 3`
retryItemOneMoreRetry(d, item, k, plan) ==
    IF item.retry_count <= MAX_RETRIES
    THEN IF <<k, "incrementRetry">> \in plan THEN Fault(d)
         ELSE [d EXCEPT !.q = incrementRetry(@, item.id)]
    ELSE IF <<k, "updateQueueStatus_failed">> \in plan THEN Fault(d)
         ELSE LET d1 == [d EXCEPT !.q = updateQueueStatus(@, item.id, "failed")]
              IN IF <<k, "updateMessageStatus_failed">> \in plan THEN Fault(d1)
                 ELSE [d1 EXCEPT !.m = updateMessageStatus(@, item.message_id, "failed")]

\* the batch-level failure branch, for the k-th item of the batch
retryItem(d, item, k, plan) ==
    IF item.retry_count < MAX_RETRIES
    THEN IF <<k, "incrementRetry">> \in plan THEN Fault(d)
         ELSE [d EXCEPT !.q = incrementRetry(@, item.id)]
    ELSE IF <<k, "updateQueueStatus_failed">> \in plan THEN Fault(d)
         ELSE LET d1 == [d EXCEPT !.q = updateQueueStatus(@, item.id, "failed")]
              IN IF <<k, "updateMessageStatus_failed">> \in plan THEN Fault(d1)
                 ELSE [d1 EXCEPT !.m = updateMessageStatus(@, item.message_id, "failed")]

\* catch (storeError) of the store loop, for the k-th item
storeCatch(d, item, k, plan) ==
    IF <<k, "updateQueueStatus_failed">> \in plan THEN Fault(d)
    ELSE LET d1 == [d EXCEPT !.q = updateQueueStatus(@, item.id, "failed")]
         IN IF <<k, "updateMessageStatus_failed">> \in plan THEN Fault(d1)
            ELSE [d1 EXCEPT !.m = updateMessageStatus(@, item.message_id, "failed")]

\* the body of the store loop without its try/catch: a throw leaves the loop
storeItemNoCatch(d, item, k, plan) ==
    IF <<k, "storeEmbedding">> \in plan THEN Fault(d)
    ELSE
    LET d1 == [d EXCEPT !.e = storeEmbedding(@, item.message_id)]
    IN  IF <<k, "updateQueueStatus_completed">> \in plan THEN Fault(d1)
        ELSE
        LET d2 == [d1 EXCEPT !.q = updateQueueStatus(@, item.id, "completed")]
        IN  IF <<k, "updateMessageStatus_embedded">> \in plan THEN Fault(d2)
            ELSE [d2 EXCEPT !.m = updateMessageStatus(@, item.message_id, "embedded")]

\* the body of the store loop, for the k-th item
storeItem(d, item, k, plan) ==
    LET Caught(x) == storeCatch([x EXCEPT !.hit = @ + 1], item, k, plan)
    IN  IF <<k, "storeEmbedding">> \in plan THEN Caught(d)
        ELSE
        LET d1 == [d EXCEPT !.e = storeEmbedding(@, item.message_id)]
        IN  IF <<k, "updateQueueStatus_completed">> \in plan THEN Caught(d1)
            ELSE
            LET d2 == [d1 EXCEPT !.q = updateQueueStatus(@, item.id, "completed")]
            IN  IF <<k, "updateMessageStatus_embedded">> \in plan THEN Caught(d2)
                ELSE [d2 EXCEPT !.m = updateMessageStatus(@, item.message_id, "embedded")]

RECURSIVE retryLoop(_, _, _, _)
\* for (const item of pending) { ... }: a throw leaves the loop (outer catch)
retryLoop(d, pending, k, plan) ==
    IF k > Len(pending) \/ d.thrown THEN d
    ELSE retryLoop(retryItem(d, pending[k], k, plan), pending, k + 1, plan)

RECURSIVE storeLoop(_, _, _, _)
storeLoop(d, pending, k, plan) ==
    IF k > Len(pending) \/ d.thrown THEN d
    ELSE storeLoop(storeItem(d, pending[k], k, plan), pending, k + 1, plan)

\* the batch took part in one more failed embedding call (history, not
\* code); the count stops two past the limit of retries
noteFailedAttempt(q, pending) ==
    [i \in DOMAIN q |->
        IF \E k \in DOMAIN pending : pending[k].id = q[i].id
        THEN [q[i] EXCEPT !.failedAttempts = IF @ < MAX_RETRIES + 2 THEN @ + 1 ELSE @]
        ELSE q[i]]

RetryStmts == {"incrementRetry", "updateQueueStatus_failed", "updateMessageStatus_failed"}
StoreStmts == {"storeEmbedding", "updateQueueStatus_completed",
               "updateMessageStatus_embedded", "updateQueueStatus_failed",
               "updateMessageStatus_failed"}

\* processBatch without the `if (isProcessing) return` line
processBatchUnguarded(getFails) ==
    IF ~embeddingAvailable
    THEN UNCHANGED <<isProcessing, inflight, faultsUsed, droppedTrigger>>
    ELSE IF getFails
    THEN /\ faultsUsed' = faultsUsed + 1
         /\ UNCHANGED <<isProcessing, inflight, droppedTrigger>>
    ELSE LET pending == getPendingQueue(embedding_queue, EMBEDDING_BATCH_SIZE)
         IN  IF pending = <<>>
             THEN UNCHANGED <<isProcessing, inflight, faultsUsed, droppedTrigger>>
             ELSE /\ isProcessing' = TRUE
                  /\ inflight' = Append(inflight, pending)
                  /\ UNCHANGED <<faultsUsed, droppedTrigger>>

\* processBatch up to `await generateEmbedding(texts)`
processBatch(getFails) ==
    IF isProcessing
    THEN \* "Already processing, skipping..."
         /\ droppedTrigger' = TRUE
         /\ UNCHANGED <<isProcessing, inflight, faultsUsed>>
    ELSE IF ~embeddingAvailable
    THEN UNCHANGED <<isProcessing, inflight, faultsUsed, droppedTrigger>>
    ELSE IF getFails
    THEN \* getPendingQueue throws: outer catch, finally resets the flag
         /\ faultsUsed' = faultsUsed + 1
         /\ UNCHANGED <<isProcessing, inflight, droppedTrigger>>
    ELSE LET pending == getPendingQueue(embedding_queue, EMBEDDING_BATCH_SIZE)
         IN  IF pending = <<>>
             THEN UNCHANGED <<isProcessing, inflight, faultsUsed, droppedTrigger>>
             ELSE /\ isProcessing' = TRUE
                  /\ inflight' = Append(inflight, pending)
                  /\ UNCHANGED <<faultsUsed, droppedTrigger>>

GetFaults == IF faultsUsed < faultBudget THEN BOOLEAN ELSE {FALSE}

BatchFrame == UNCHANGED <<SERVER_MEMORY_ENABLED, embeddingAvailable, EMBEDDING_BATCH_SIZE,
                   faultBudget, lastBatch, server_messages,
                          channel_metadata, embedding_queue, nextQueueId,
                          server_embeddings, ingestionDb, ingestResult, queueRest>>

\* the setInterval callback
TimerFires ==
    /\ processorInterval
    /\ Len(inflight) < MaxInflight
    /\ \E getFails \in GetFaults : processBatch(getFails)
    /\ BatchFrame
    /\ UNCHANGED <<processorInterval, pendingTimeouts>>

\* the setTimeout(() => processBatch(), 5000) callback of startProcessor
InitialRunFires ==
    /\ pendingTimeouts > 0
    /\ Len(inflight) < MaxInflight
    /\ pendingTimeouts' = pendingTimeouts - 1
    /\ \E getFails \in GetFaults : processBatch(getFails)
    /\ BatchFrame
    /\ UNCHANGED processorInterval

\* no batch has finished yet
NoBatch == [items |-> <<>>, success |-> FALSE, threw |-> {}]

\* the queue ids of a finished batch in the order processBatch took them
Finished(pending, success, plan) ==
    [items |-> [k \in DOMAIN pending |-> pending[k].id], success |-> success,
     threw |-> plan]

\* processNow(): await processBatch()
ProcessNow ==
    /\ Len(inflight) < MaxInflight
    /\ \E getFails \in GetFaults : processBatch(getFails)
    /\ BatchFrame
    /\ UNCHANGED <<processorInterval, pendingTimeouts>>

\* processBatch from the return of generateEmbedding to its end
EmbeddingResolves ==
    \E n \in DOMAIN inflight, success \in BOOLEAN :
      LET pending == inflight[n]
          stmts == IF success THEN StoreStmts ELSE RetryStmts
      IN \E plan \in FaultPlans((DOMAIN pending) \X stmts) :
           LET d == IF success
                    THEN storeLoop(BatchDb, pending, 1, plan)
                    ELSE retryLoop([BatchDb EXCEPT !.q = noteFailedAttempt(@, pending)],
                                   pending, 1, plan)
           IN /\ d.hit = Cardinality(plan)
              /\ server_messages' = d.m
              /\ embedding_queue' = d.q
              /\ server_embeddings' = d.e
              /\ faultsUsed' = faultsUsed + d.hit
              /\ isProcessing' = FALSE             \* finally
              /\ droppedTrigger' = FALSE
              /\ inflight' = [i \in 1..(Len(inflight) - 1) |->
                                 IF i < n THEN inflight[i] ELSE inflight[i + 1]]
              /\ lastBatch' = Finished(pending, success, plan)
              /\ UNCHANGED <<SERVER_MEMORY_ENABLED, embeddingAvailable,
                             EMBEDDING_BATCH_SIZE, faultBudget, channel_metadata,
                             nextQueueId, processorInterval, pendingTimeouts,
                             ingestionDb, ingestResult, queueRest>>

startProcessor ==
    IF processorInterval \/ ~SERVER_MEMORY_ENABLED
    THEN UNCHANGED <<processorInterval, pendingTimeouts>>
    ELSE /\ pendingTimeouts' = pendingTimeouts + 1
         /\ processorInterval' = TRUE

StartProcessor ==
    /\ pendingTimeouts < MaxTimeouts
    /\ startProcessor
    /\ UNCHANGED <<SERVER_MEMORY_ENABLED, embeddingAvailable, EMBEDDING_BATCH_SIZE,
                   faultBudget, lastBatch, server_messages,
                   channel_metadata, embedding_queue, nextQueueId, server_embeddings,
                   isProcessing, inflight, droppedTrigger, ingestionDb, ingestResult, faultsUsed,
                   queueRest>>

\* a stopProcessor that also clears the in-memory processing flag
stopProcessorResetsFlag ==
    /\ processorInterval' = FALSE
    /\ isProcessing' = FALSE
    /\ UNCHANGED <<pendingTimeouts, inflight, embedding_queue, server_messages,
                   server_embeddings>>

stopProcessor ==
    /\ processorInterval' = FALSE
    /\ UNCHANGED <<pendingTimeouts, isProcessing, inflight, embedding_queue,
                   server_messages, server_embeddings>>

StopProcessor ==
    /\ stopProcessor
    /\ UNCHANGED <<SERVER_MEMORY_ENABLED, embeddingAvailable, EMBEDDING_BATCH_SIZE,
                   faultBudget, lastBatch, channel_metadata,
                   nextQueueId, droppedTrigger, ingestionDb, ingestResult, faultsUsed, queueRest>>

\* DELETE FROM embedding_queue WHERE status IN ('completed','failed')
\*   AND processed_at < datetime('now', '-1 day')
cleanupQueue(q) ==
    SelectSeq(q, LAMBDA r : ~(r.status \in Terminal /\ r.processed_at = "old"))

CleanupOldItems ==
    /\ \E fails \in GetFaults :
         IF fails
         THEN faultsUsed' = faultsUsed + 1 /\ UNCHANGED embedding_queue
         ELSE embedding_queue' = cleanupQueue(embedding_queue) /\ UNCHANGED faultsUsed
    /\ UNCHANGED <<SERVER_MEMORY_ENABLED, embeddingAvailable, EMBEDDING_BATCH_SIZE,
                   faultBudget, lastBatch, server_messages,
                   channel_metadata, nextQueueId, server_embeddings, isProcessing,
                   processorInterval, pendingTimeouts, inflight, droppedTrigger,
                   ingestionDb, ingestResult, queueRest>>

\* a day passes: every processed_at written so far is older than the cutoff
DayPasses ==
    /\ \E i \in DOMAIN embedding_queue : embedding_queue[i].processed_at = "recent"
    /\ embedding_queue' =
          [i \in DOMAIN embedding_queue |->
              IF embedding_queue[i].processed_at = "recent"
              THEN [embedding_queue[i] EXCEPT !.processed_at = "old"]
              ELSE embedding_queue[i]]
    /\ UNCHANGED <<SERVER_MEMORY_ENABLED, embeddingAvailable, EMBEDDING_BATCH_SIZE,
                   faultBudget, lastBatch, server_messages,
                   channel_metadata, nextQueueId, server_embeddings, isProcessing,
                   processorInterval, pendingTimeouts, inflight, droppedTrigger,
                   ingestionDb, ingestResult, faultsUsed, queueRest>>

\* ------------------------------------------------------- personality system
\* Relationship numbers, trait values, sentiments and confidences are in
\* thousandths (0.3 is 300, 0.005 is 5).  The statements of this subsystem
\* are taken to succeed; the append-only logs (mood_history,
\* personality_evolution, mood_triggers) and the nickname are left out.  The
\* relationship cache is not a variable of its own: each entry is deleted by
\* the one function that writes the row, so what it holds is the row.
Users == {"u1"}

MathMin(a, b) == IF a < b THEN a ELSE b

MathMax(a, b) == IF a > b THEN a ELSE b

\* function clamp(value, min, max) without its upper bound
clampNoMax(value, min, max) == MathMax(min, value)

\* function clamp(value, min, max)
clamp(value, min, max) == MathMax(min, MathMin(max, value))

\* JavaScript values that reach the arithmetic on deltas
Number(v) == [kind |-> "number", v |-> v]

Missing == [kind |-> "missing", v |-> 0]        \* undefined or null

Text == [kind |-> "text", v |-> 0]              \* a string that is no number

NaN == [kind |-> "nan", v |-> 0]

\* x || d
orElse(x, d) ==
    IF x.kind \in {"missing", "nan"} \/ (x.kind = "number" /\ x.v = 0) THEN Number(d) ELSE x

\* the same expression without the two bounds
boundDeltaUnbounded(lo, hi, x) == IF x.kind = "number" THEN x ELSE NaN

\* Math.max(lo, Math.min(hi, x))
boundDelta(lo, hi, x) ==
    IF x.kind = "number" THEN Number(MathMax(lo, MathMin(hi, x.v))) ELSE NaN

\* current + (x || 0)
plusDelta(current, x) == current + orElse(x, 0).v

PersonalityDimensions ==
    [openness          |-> [base |-> 700, min |-> 300, max |-> 950],
     conscientiousness |-> [base |-> 400, min |-> 200, max |-> 800],
     extraversion      |-> [base |-> 650, min |-> 300, max |-> 900],
     agreeableness     |-> [base |-> 450, min |-> 200, max |-> 800],
     neuroticism       |-> [base |-> 350, min |-> 100, max |-> 700],
     tsundereLevel     |-> [base |-> 750, min |-> 400, max |-> 950],
     snarkiness        |-> [base |-> 800, min |-> 500, max |-> 950],
     protectiveness    |-> [base |-> 600, min |-> 300, max |-> 950],
     chaosEnergy       |-> [base |-> 550, min |-> 200, max |-> 850],
     wisdom            |-> [base |-> 500, min |-> 300, max |-> 900],
     playfulness       |-> [base |-> 700, min |-> 400, max |-> 900],
     patience          |-> [base |-> 500, min |-> 200, max |-> 800],
     competitiveness   |-> [base |-> 650, min |-> 300, max |-> 900],
     vulnerability     |-> [base |-> 250, min |-> 100, max |-> 600]]

Moods == {"neutral", "happy", "annoyed", "mischievous", "protective", "flustered",
          "bored", "energetic", "melancholic", "competitive", "smug", "soft"}

\* Moods[...].effects, in thousandths
MoodEffects ==
    [neutral     |-> [t \in {} |-> 0],
     happy       |-> [playfulness |-> 150, snarkiness |-> -100, agreeableness |-> 100],
     annoyed     |-> [snarkiness |-> 200, patience |-> -200, tsundereLevel |-> 100],
     mischievous |-> [chaosEnergy |-> 200, playfulness |-> 150, snarkiness |-> 100],
     protective  |-> [protectiveness |-> 250, vulnerability |-> 100,
                      tsundereLevel |-> -100],
     flustered   |-> [tsundereLevel |-> 200, vulnerability |-> 150, snarkiness |-> -100],
     bored       |-> [chaosEnergy |-> 150, patience |-> -150, playfulness |-> -100],
     energetic   |-> [extraversion |-> 200, chaosEnergy |-> 100, playfulness |-> 100],
     melancholic |-> [wisdom |-> 150, vulnerability |-> 200, playfulness |-> -200],
     competitive |-> [competitiveness |-> 250, snarkiness |-> 100, patience |-> -100],
     smug        |-> [snarkiness |-> 150, tsundereLevel |-> 100, wisdom |-> 50],
     soft        |-> [vulnerability |-> 300, tsundereLevel |-> -200,
                      agreeableness |-> 200]]

\* the mood effects applied without the upper bound
effectiveTraitsNoMax(traits, currentMood) ==
    [trait \in DOMAIN traits |->
        IF trait \in DOMAIN MoodEffects[currentMood]
        THEN MathMax(0, traits[trait] + MoodEffects[currentMood][trait])
        ELSE traits[trait]]

\* getPersonalityState(): "Apply mood effects to traits"
effectiveTraits(traits, currentMood) ==
    [trait \in DOMAIN traits |->
        IF trait \in DOMAIN MoodEffects[currentMood]
        THEN MathMax(0, MathMin(1000, traits[trait] + MoodEffects[currentMood][trait]))
        ELSE traits[trait]]

\* a read that on decay also puts the traits back to their base values
getPersonalityStateResetsTraits(p, expired) ==
    IF expired
    THEN [p EXCEPT !.current_mood = "neutral",
                   !.traits = [t \in DOMAIN PersonalityDimensions |->
                                  PersonalityDimensions[t].base]]
    ELSE p

\* getPersonalityState(): a mood past its duration decays to neutral when the
\* state is read from the table
getPersonalityState(p, expired) ==
    IF expired /\ p.current_mood # "neutral" THEN [p EXCEPT !.current_mood = "neutral"] ELSE p

\* Moods and PersonalityDimensions are object literals: obj[name] is truthy
\* for the literal's own keys and for the names every object inherits from
\* Object.prototype
ObjectPrototype == {"constructor", "toString", "valueOf", "hasOwnProperty"}

\* !obj[name] is false
hasProperty(keys, name) == name \in keys \cup ObjectPrototype

\* setMood(moodName, triggerReason): `if (!Moods[moodName]) return false`, then
\* upsertPersonalityState.run(traits, moodName, now, triggers)
setMood(p, moodName) ==
    IF ~hasProperty(Moods, moodName) THEN p ELSE [p EXCEPT !.current_mood = moodName]

\* evolveTrait that applies the upper limit only
evolveTraitNoMin(p, traitName, delta, doClamp) ==
    IF traitName \notin DOMAIN PersonalityDimensions THEN p
    ELSE LET newValue == MathMin(PersonalityDimensions[traitName].max,
                                 p.traits[traitName] + delta)
         IN  IF newValue = p.traits[traitName] THEN p
             ELSE [p EXCEPT !.traits[traitName] = newValue]

\* evolveTrait(traitName, delta, triggerEvent, clamp = true): doClamp is the
\* fourth parameter, which every call of the repository leaves at its default
evolveTrait(p, traitName, delta, doClamp) ==
    IF ~hasProperty(DOMAIN PersonalityDimensions, traitName) THEN p
    ELSE IF traitName \notin DOMAIN PersonalityDimensions
    \* previousValue is the inherited function (or undefined on a later call),
    \* newValue is NaN or a string, Math.abs(newValue - previousValue) is NaN
    \* and NaN < 0.001 is false: the row is written with the name as a key of
    \* traits, and logTraitChange.run throws on the value it cannot bind
    THEN [p EXCEPT !.inherited = @ \cup {traitName}]
    ELSE LET previousValue == p.traits[traitName]
             dim == PersonalityDimensions[traitName]
             newValue == IF doClamp
                         THEN MathMax(dim.min, MathMin(dim.max, previousValue + delta))
                         ELSE previousValue + delta
             change == IF newValue >= previousValue THEN newValue - previousValue
                       ELSE previousValue - newValue
         IN  IF change < 1 THEN p
             ELSE [p EXCEPT !.traits[traitName] = newValue,
                            \* logTraitChange.run(traitName, newValue, triggerEvent,
                            \*                    previousValue)
                            !.evolution = Append(@, [trait_name |-> traitName,
                                                     trait_value |-> newValue,
                                                     previous_value |-> previousValue])]

\* ------------------------------------------- personality state over time
\* Time is in ticks of 15 seconds: CACHE_TTL is 30000 ms, the mood durations
\* are whole minutes.
CACHE_TTL == 2

TicksPerMinute == 4

\* Moods[...].duration, in minutes
MoodMinutes ==
    [neutral |-> 60, happy |-> 45, annoyed |-> 30, mischievous |-> 40,
     protective |-> 60, flustered |-> 20, bored |-> 30, energetic |-> 35,
     melancholic |-> 45, competitive |-> 30, smug |-> 25, soft |-> 20]

\* Date.now() - moodStarted.getTime() > moodData.duration * 60 * 1000
moodExpired(current_mood, startedAt, t) ==
    t - startedAt > MoodMinutes[current_mood] * TicksPerMinute

NoCache == [kind |-> "null"]

\* the instants at which something happens: the first half minute, and the
\* minutes around the end of the shortest mood
Instants == (0 .. CACHE_TTL) \cup ((MoodMinutes.flustered * TicksPerMinute) .. MaxNow)

TimePasses ==
    /\ \E t \in Instants : t > now /\ now' = t
    /\ UNCHANGED <<mood_started_at, personalityCache, lastCacheUpdate, evolveCalls,
                   lastRead, moodRest, relVars>>

\* getPersonalityState(): the cached answer while it is younger than
\* CACHE_TTL, otherwise the row, with a mood past its duration set to neutral
GetPersonalityState ==
    /\ LET seen == [kind |-> "read",
                    stored |-> personality_state.current_mood,
                    elapsed |-> moodExpired(personality_state.current_mood,
                                            mood_started_at, now)]
       IN  IF personalityCache.kind # "null" /\ now - lastCacheUpdate < CACHE_TTL
           THEN /\ lastRead' = [kind |-> "read", stored |-> seen.stored,
                                elapsed |-> seen.elapsed, cached |-> TRUE,
                                currentMood |-> personalityCache.currentMood]
                /\ UNCHANGED <<personality_state, mood_started_at, personalityCache,
                               lastCacheUpdate>>
           ELSE LET p == getPersonalityState(personality_state, seen.elapsed)
                IN  /\ personality_state' = p
                    \* setMood('neutral', 'mood_decay') restarts the mood
                    /\ mood_started_at' = IF p # personality_state THEN now
                                          ELSE mood_started_at
                    /\ personalityCache' = [kind |-> "state", baseTraits |-> p.traits,
                                            effectiveTraits |->
                                                effectiveTraits(p.traits, p.current_mood),
                                            currentMood |-> p.current_mood]
                    /\ lastCacheUpdate' = now
                    /\ lastRead' = [kind |-> "read", stored |-> seen.stored,
                                    elapsed |-> seen.elapsed, cached |-> FALSE,
                                    currentMood |-> p.current_mood]
    /\ UNCHANGED <<now, evolveCalls, user_relationships, relationshipCache, interactions,
                   lastInteraction, moodRest>>

\* "sleepy" is not a mood
MoodInputs == {"flustered", "sleepy"}

\* setMood(moodName, triggerReason) called on its own
SetMoodFrom(moodNames) ==
    /\ \E moodName \in moodNames :
         /\ personality_state' = setMood(personality_state, moodName)
         /\ IF moodName \in Moods
            THEN mood_started_at' = now /\ personalityCache' = NoCache
            ELSE IF hasProperty(Moods, moodName)
            \* logMoodChange.run throws on Moods[moodName].duration, which is
            \* undefined, after the row was written
            THEN mood_started_at' = now /\ UNCHANGED personalityCache
            ELSE UNCHANGED <<mood_started_at, personalityCache>>
    /\ UNCHANGED <<now, lastCacheUpdate, evolveCalls, lastRead, user_relationships,
                   relationshipCache, interactions, lastInteraction, moodRest>>

SetMood == SetMoodFrom(MoodInputs)

\* setMood called with each of the moods
SetAnyMood == SetMoodFrom(Moods)

\* "charisma" is not a trait
TraitInputs == {"vulnerability", "charisma"}

TraitDeltas == {-1000, 0, 5, 1000}

\* evolveTrait(traitName, delta, triggerEvent, clamp) called on its own
EvolveTraitOf(traitNames) ==
    /\ evolveCalls.clamped + evolveCalls.unclamped < MaxEvolves
    /\ \E traitName \in traitNames, delta \in TraitDeltas, doClamp \in BOOLEAN :
         LET p == evolveTrait(personality_state, traitName, delta, doClamp)
         IN  /\ personality_state' = p
             \* the cache is dropped only when the row was written and the
             \* change logged
             /\ personalityCache' = IF p.evolution # personality_state.evolution
                                    THEN NoCache
                                    ELSE personalityCache
             /\ evolveCalls' = IF doClamp
                               THEN [evolveCalls EXCEPT !.clamped = @ + 1]
                               ELSE [evolveCalls EXCEPT !.unclamped = @ + 1]
    /\ UNCHANGED <<now, mood_started_at, lastCacheUpdate, lastRead, user_relationships,
                   relationshipCache, interactions, lastInteraction, moodRest>>

EvolveTrait == EvolveTraitOf(TraitInputs)

\* names that are neither moods nor traits: one that no object has, and one
\* that every object inherits
NameInputs == {"sleepy", "constructor"}

\* setMood called with a mood and with the names
SetNamedMood == SetMoodFrom({"flustered"} \cup NameInputs)

\* evolveTrait called with a trait and with the names
EvolveNamedTrait == EvolveTraitOf({"vulnerability"} \cup NameInputs)

NoRow == [exists |-> FALSE]

\* the stage table without its last row
determineRelationshipStageNoFamily(familiarity) ==
    IF familiarity >= 800 THEN "closeFriend"
    ELSE IF familiarity >= 600 THEN "friend"
    ELSE IF familiarity >= 400 THEN "regular"
    ELSE IF familiarity >= 200 THEN "acquaintance"
    ELSE "stranger"

determineRelationshipStage(familiarity) ==
    IF familiarity >= 950 THEN "family"
    ELSE IF familiarity >= 800 THEN "closeFriend"
    ELSE IF familiarity >= 600 THEN "friend"
    ELSE IF familiarity >= 400 THEN "regular"
    ELSE IF familiarity >= 200 THEN "acquaintance"
    ELSE "stranger"

\* getRelationship(userId) past its cache: the stored row, or the defaults of
\* a new user, with the stage computed from its familiarity
getRelationship(rels, userId) ==
    LET rel == IF rels[userId].exists THEN rels[userId]
               ELSE [exists |-> TRUE, affection |-> 300, trust |-> 300,
                     familiarity |-> 100, rivalry |-> 0, insideJokes |-> 0, notes |-> 0,
                     interaction_count |-> 0, relationship_stage |-> "stranger"]
    IN  [exists |-> rel.exists, affection |-> rel.affection, trust |-> rel.trust,
         familiarity |-> rel.familiarity, rivalry |-> rel.rivalry,
         insideJokes |-> rel.insideJokes, notes |-> rel.notes,
         interaction_count |-> rel.interaction_count,
         relationship_stage |-> rel.relationship_stage,
         stage |-> determineRelationshipStage(rel.familiarity)]

\* the row updateRelationship(userId, updates) writes; insideJokes and notes
\* are the lengths of the two lists (.slice(-10), .slice(-20))
newRel(current, updates) ==
    LET familiarity == clamp(plusDelta(current.familiarity, updates.familiarity), 0, 1000)
    IN  [exists |-> TRUE,
         affection |-> clamp(plusDelta(current.affection, updates.affection), 0, 1000),
         trust |-> clamp(plusDelta(current.trust, updates.trust), 0, 1000),
         familiarity |-> familiarity,
         rivalry |-> clamp(plusDelta(current.rivalry, updates.rivalry), 0, 1000),
         insideJokes |-> IF updates.addJoke THEN MathMin(current.insideJokes + 1, 10)
                         ELSE current.insideJokes,
         notes |-> IF updates.addNote THEN MathMin(current.notes + 1, 20)
                   ELSE current.notes,
         interaction_count |-> current.interaction_count + 1,
         relationship_stage |-> determineRelationshipStage(familiarity)]

\* Date.now() - cached.timestamp < CACHE_TTL, for the entry there is.  A hit
\* and a miss return the same data and leave the same cache when the entry
\* equals what the table holds: one of the two stands for both then.
Freshness(cache, rels, userId) ==
    IF ~cache[userId].exists THEN {FALSE}
    ELSE IF cache[userId] = getRelationship(rels, userId) THEN {TRUE}
    ELSE BOOLEAN

\* what getRelationship(userId) returns: the cached data while it is fresh
cachedRelationship(cache, rels, userId, fresh) ==
    IF cache[userId].exists /\ fresh THEN cache[userId] ELSE getRelationship(rels, userId)

\* relationshipCache after getRelationship(userId): relationshipCache.set on a miss
cacheAfterGet(cache, rels, userId, fresh) ==
    IF cache[userId].exists /\ fresh THEN cache
    ELSE [cache EXCEPT ![userId] = getRelationship(rels, userId)]

\* an updateRelationship that leaves the cached data in place
cacheDeleteNothing(cache, userId) == cache

\* relationshipCache.delete(userId)
cacheDelete(cache, userId) == [cache EXCEPT ![userId] = NoRow]

updateRelationship(rels, cache, userId, updates, fresh) ==
    [rels EXCEPT ![userId] = newRel(cachedRelationship(cache, rels, userId, fresh), updates)]

\* relationshipCache after updateRelationship(userId, updates)
cacheAfterUpdate(cache, rels, userId, fresh) ==
    cacheDelete(cacheAfterGet(cache, rels, userId, fresh), userId)

\* <= in the place of <
ltOrEqual(x, c) == x.kind = "number" /\ x.v <= c

\* a comparison with NaN is false
lt(x, c) == x.kind = "number" /\ x.v < c

\* >= in the place of >
gtOrEqual(x, c) == x.kind = "number" /\ x.v >= c

gt(x, c) == x.kind = "number" /\ x.v > c

NullResult == [kind |-> "null"]

\* a message, as the keyword analysis sees it: how many of the positive and
\* negative words it contains and which of the patterns it matches
Message(pos, neg, challenge, compliment, playful, vulnerable, rude, joke) ==
    [pos |-> pos, neg |-> neg, isChallenge |-> challenge, isCompliment |-> compliment,
     isPlayful |-> playful, isVulnerable |-> vulnerable, isRude |-> rude,
     isPotentialJoke |-> joke]

Messages ==
    {Message(0, 0, FALSE, FALSE, FALSE, FALSE, FALSE, FALSE),    \* "hello"
     Message(3, 0, FALSE, TRUE, FALSE, FALSE, FALSE, FALSE),     \* "thanks, love you, amazing"
     Message(0, 2, FALSE, FALSE, FALSE, FALSE, TRUE, FALSE),     \* "shut up, stupid"
     Message(0, 1, FALSE, FALSE, FALSE, TRUE, FALSE, TRUE)}      \* "remember when ... i feel so bad, lonely"

analyzeMessageKeywordFallback(message) ==
    [sentiment |-> Number(clamp(200 * message.pos - 300 * message.neg, -1000, 1000)),
     suggestedMood |-> Null,
     moodConfidence |-> Number(0),
     isChallenge |-> message.isChallenge,
     isCompliment |-> message.isCompliment,
     isPlayful |-> message.isPlayful,
     isVulnerable |-> message.isVulnerable,
     isRude |-> message.isRude,
     isPotentialJoke |-> message.isPotentialJoke,
     usedLLM |-> FALSE]

\* what the mood evaluator's model may answer (parsed JSON), or no answer
MoodAnswer(sentiment, mood, confidence, compliment, rude) ==
    [kind |-> "result", sentiment |-> sentiment, suggestedMood |-> mood,
     moodConfidence |-> confidence, isChallenge |-> FALSE, isCompliment |-> compliment,
     isPlayful |-> FALSE, isVulnerable |-> FALSE, isRude |-> rude]

MoodAnswers ==
    {MoodAnswer(Number(800), "happy", Number(900), TRUE, FALSE),
     MoodAnswer(Number(-800), "soft", Number(600), FALSE, TRUE),
     MoodAnswer(Text, "ecstatic", Number(2000), FALSE, FALSE)}

\* evaluateMood: null, or the answer validated and clamped
evaluateMood(result) ==
    IF result.kind = "null" THEN NullResult
    ELSE [kind |-> "result",
          sentiment |-> boundDelta(-1000, 1000, orElse(result.sentiment, 0)),
          suggestedMood |-> IF result.suggestedMood = "" THEN "neutral"
                            ELSE result.suggestedMood,
          moodConfidence |-> boundDelta(0, 1000, orElse(result.moodConfidence, 500)),
          isChallenge |-> result.isChallenge, isCompliment |-> result.isCompliment,
          isPlayful |-> result.isPlayful, isVulnerable |-> result.isVulnerable,
          isRude |-> result.isRude]

analyzeMessage(message, result) ==
    LET llmResult == evaluateMood(result)
    IN  IF llmResult.kind # "null"
        THEN [sentiment |-> llmResult.sentiment,
              suggestedMood |-> llmResult.suggestedMood,
              moodConfidence |-> llmResult.moodConfidence,
              isChallenge |-> llmResult.isChallenge,
              isCompliment |-> llmResult.isCompliment,
              isPlayful |-> llmResult.isPlayful,
              isVulnerable |-> llmResult.isVulnerable,
              isRude |-> llmResult.isRude,
              isPotentialJoke |-> llmResult.isPlayful,
              usedLLM |-> TRUE]
        ELSE analyzeMessageKeywordFallback(message)

\* the mood changes without the trait nudges of the pattern rules
handleMoodNoNudge(p, analysis) ==
    IF analysis.usedLLM /\ analysis.suggestedMood # Null /\ gt(analysis.moodConfidence, 600)
    THEN setMood(p, analysis.suggestedMood)
    ELSE IF lt(analysis.sentiment, -500)
    THEN IF analysis.isChallenge THEN setMood(p, "competitive")
         ELSE IF analysis.isRude THEN setMood(p, "annoyed")
         ELSE p
    ELSE IF gt(analysis.sentiment, 500)
    THEN IF analysis.isCompliment THEN setMood(p, "flustered")
         ELSE IF analysis.isPlayful THEN setMood(p, "mischievous")
         ELSE IF analysis.isVulnerable THEN setMood(p, "protective")
         ELSE p
    ELSE p

\* processInteraction, "Handle mood changes"
handleMood(p, analysis) ==
    IF analysis.usedLLM /\ analysis.suggestedMood # Null /\ gt(analysis.moodConfidence, 600)
    THEN setMood(p, analysis.suggestedMood)
    ELSE IF lt(analysis.sentiment, -500)
    THEN IF analysis.isChallenge
         THEN evolveTrait(setMood(p, "competitive"), "competitiveness", 10, TRUE)
         ELSE IF analysis.isRude
         THEN evolveTrait(setMood(p, "annoyed"), "patience", -5, TRUE)
         ELSE p
    ELSE IF gt(analysis.sentiment, 500)
    THEN IF analysis.isCompliment
         THEN evolveTrait(setMood(p, "flustered"), "tsundereLevel", 5, TRUE)
         ELSE IF analysis.isPlayful
         THEN evolveTrait(setMood(p, "mischievous"), "playfulness", 5, TRUE)
         ELSE IF analysis.isVulnerable
         THEN evolveTrait(evolveTrait(setMood(p, "protective"), "protectiveness", 10, TRUE),
                          "vulnerability", 5, TRUE)
         ELSE p
    ELSE p

\* what the relationship evaluator's model may answer (parsed JSON)
RelAnswer(affection, trust, familiarity, rivalry, vulnerability, care, joke, note) ==
    [kind |-> "result",
     relationshipDeltas |-> [affection |-> affection, trust |-> trust,
                             familiarity |-> familiarity, rivalry |-> rivalry],
     sharedVulnerability |-> vulnerability, showedCare |-> care,
     suggestedInsideJoke |-> joke, noteworthyMoment |-> note]

RelAnswers ==
    {RelAnswer(Number(1000), Number(1000), Number(1000), Number(1000), TRUE, TRUE, TRUE, TRUE),
     RelAnswer(Number(-1000), Number(-1000), Number(-1000), Number(-1000), FALSE, FALSE, FALSE, FALSE),
     RelAnswer(Missing, Number(0), Text, Number(5), FALSE, FALSE, FALSE, FALSE)}

\* the familiarity delta bounded like the rivalry delta, on both sides of 0
evaluateRelationshipAnyFamiliarity(result) ==
    IF result.kind = "null" THEN NullResult
    ELSE LET deltas == result.relationshipDeltas
         IN [kind |-> "result",
             relationshipDeltas |->
                [affection |-> boundDelta(-50, 50, orElse(deltas.affection, 5)),
                 trust |-> boundDelta(-30, 30, orElse(deltas.trust, 2)),
                 familiarity |-> boundDelta(-20, 20, orElse(deltas.familiarity, 10)),
                 rivalry |-> boundDelta(-20, 20, orElse(deltas.rivalry, 0))],
             sharedVulnerability |-> result.sharedVulnerability,
             showedCare |-> result.showedCare,
             suggestedInsideJoke |-> result.suggestedInsideJoke,
             noteworthyMoment |-> result.noteworthyMoment]

\* evaluateRelationship: null, or the answer with its deltas clamped
evaluateRelationship(result) ==
    IF result.kind = "null" THEN NullResult
    ELSE LET deltas == result.relationshipDeltas
         IN [kind |-> "result",
             relationshipDeltas |->
                [affection |-> boundDelta(-50, 50, orElse(deltas.affection, 5)),
                 trust |-> boundDelta(-30, 30, orElse(deltas.trust, 2)),
                 familiarity |-> boundDelta(5, 20, orElse(deltas.familiarity, 10)),
                 rivalry |-> boundDelta(-20, 20, orElse(deltas.rivalry, 0))],
             sharedVulnerability |-> result.sharedVulnerability,
             showedCare |-> result.showedCare,
             suggestedInsideJoke |-> result.suggestedInsideJoke,
             noteworthyMoment |-> result.noteworthyMoment]

\* the fallback deltas replaced by no update at all
fallbackUpdatesNone(analysis, random) ==
    [affection |-> Missing, trust |-> Missing, familiarity |-> Missing,
     rivalry |-> Missing, addJoke |-> FALSE, addNote |-> FALSE]

\* processInteraction, "Fallback: Use fixed delta logic"
fallbackUpdates(analysis, random) ==
    [familiarity |-> Number(10),
     affection |-> IF gt(analysis.sentiment, 0) THEN Number(5)
                   ELSE IF lt(analysis.sentiment, -300) THEN Number(-2)
                   ELSE Number(0),
     trust |-> IF analysis.isVulnerable THEN Number(20) ELSE Number(2),
     rivalry |-> Missing,
     addJoke |-> analysis.isPotentialJoke /\ random,
     addNote |-> FALSE]

\* processInteraction, "Use LLM-evaluated relationship deltas"
llmUpdates(llmRelEval) ==
    [affection |-> llmRelEval.relationshipDeltas.affection,
     trust |-> llmRelEval.relationshipDeltas.trust,
     familiarity |-> llmRelEval.relationshipDeltas.familiarity,
     rivalry |-> llmRelEval.relationshipDeltas.rivalry,
     addJoke |-> llmRelEval.suggestedInsideJoke,
     addNote |-> llmRelEval.noteworthyMoment]

\* "Evolve traits based on trust indicators"
trustIndicatorTraits(p, llmRelEval) ==
    LET p1 == IF llmRelEval.sharedVulnerability
              THEN evolveTrait(evolveTrait(p, "vulnerability", 5, TRUE), "protectiveness", 3, TRUE)
              ELSE p
    IN  IF llmRelEval.showedCare THEN evolveTrait(p1, "agreeableness", 3, TRUE) ELSE p1

evolveFromPatterns(p, rel) ==
    LET p1 == IF rel.affection > 700 THEN evolveTrait(p, "agreeableness", 2, TRUE) ELSE p
    IN  IF rel.rivalry > 500 THEN evolveTrait(p1, "competitiveness", 3, TRUE) ELSE p1

NoAnalysis == analyzeMessageKeywordFallback(Message(0, 0, FALSE, FALSE, FALSE, FALSE,
                                                    FALSE, FALSE))

UpdatesStarted(userId) ==
    getRelationship(user_relationships, userId).interaction_count
      + Cardinality({n \in DOMAIN interactions : interactions[n].userId = userId})

RelFrame == UNCHANGED relRest

\* processInteraction up to `await evaluateMood(...)`
BeginInteractionAmong(messages, concurrent) ==
    /\ Len(interactions) < concurrent
    /\ \E userId \in Users, message \in messages, expired \in BOOLEAN :
       \E fresh \in Freshness(relationshipCache, user_relationships, userId) :
         /\ UpdatesStarted(userId) < MaxInteractions
         \* the duration of a name that is no mood is undefined, and no time
         \* is greater than undefined * 60 * 1000
         /\ expired => personality_state.current_mood \in Moods
         /\ LET relationship == cachedRelationship(relationshipCache, user_relationships,
                                                   userId, fresh)
            IN interactions' = Append(interactions,
                   [userId |-> userId, message |-> message, pc |-> "evaluateMood",
                    interaction_count |-> relationship.interaction_count,
                    analysis |-> NoAnalysis])
         /\ relationshipCache' = cacheAfterGet(relationshipCache, user_relationships,
                                               userId, fresh)
         /\ personality_state' = getPersonalityState(personality_state, expired)
    /\ UNCHANGED <<user_relationships, lastInteraction>>
    /\ RelFrame

\* one call at a time
BeginInteractionWith(messages) == BeginInteractionAmong(messages, MaxConcurrent)

BeginInteraction == BeginInteractionWith(Messages)

\* messages with each of the five patterns, with and without the keywords
\* that move the sentiment past 0.5 in either direction
PatternMessages ==
    {Message(0, 2, TRUE, FALSE, FALSE, FALSE, FALSE, FALSE),    \* "i hate this, worst. fight me"
     Message(0, 0, TRUE, FALSE, FALSE, FALSE, FALSE, FALSE),    \* "bet you can't"
     Message(0, 2, TRUE, FALSE, FALSE, FALSE, TRUE, FALSE),     \* "shut up, stupid, fight me"
     Message(0, 2, FALSE, FALSE, FALSE, FALSE, TRUE, FALSE),    \* "shut up, stupid"
     Message(0, 1, FALSE, FALSE, FALSE, FALSE, TRUE, FALSE),    \* "shut up, i hate this"
     Message(3, 0, FALSE, TRUE, FALSE, FALSE, FALSE, FALSE),    \* "thanks, love you, amazing"
     Message(1, 0, FALSE, TRUE, FALSE, FALSE, FALSE, FALSE),    \* "thank you"
     Message(3, 0, FALSE, FALSE, TRUE, FALSE, FALSE, FALSE),    \* "lol awesome, great, i like it"
     Message(0, 0, FALSE, FALSE, TRUE, FALSE, FALSE, FALSE),    \* "lol"
     Message(3, 0, FALSE, FALSE, FALSE, TRUE, FALSE, FALSE),    \* "lonely, but i like this, great, awesome"
     Message(0, 0, FALSE, FALSE, FALSE, TRUE, FALSE, FALSE)}    \* "i am so lonely"

\* processInteraction called with the messages of the patterns
BeginPatternInteraction == BeginInteractionWith(PatternMessages)

\* from the return of evaluateMood to `await evaluateRelationship(...)`
MoodResolvesWith(results) ==
    /\ \E n \in DOMAIN interactions, result \in results :
         /\ interactions[n].pc = "evaluateMood"
         /\ LET analysis == analyzeMessage(interactions[n].message, result)
            IN /\ personality_state' = handleMood(personality_state, analysis)
               /\ interactions' = [interactions EXCEPT
                                      ![n].pc = "evaluateRelationship",
                                      ![n].analysis = analysis]
    /\ UNCHANGED <<user_relationships, relationshipCache, lastInteraction>>
    /\ RelFrame

MoodResolves == MoodResolvesWith(MoodAnswers \cup {NullResult})

\* the evaluator's model suggests a name that is no mood, with confidence
NamedAnswers == {MoodAnswer(Number(0), name, Number(900), FALSE, FALSE) : name \in NameInputs}

\* evaluateMood returns one of these suggestions, or null
NamedMoodResolves == MoodResolvesWith(NamedAnswers \cup {NullResult})

\* evaluateMood returns null: no API key, a network error or no usable JSON
MoodEvaluatorFails == MoodResolvesWith({NullResult})

\* from the return of evaluateRelationship to the end of processInteraction
RelationshipResolvesWith(results) ==
    /\ \E n \in DOMAIN interactions, result \in results, random \in BOOLEAN :
       \E fresh \in Freshness(relationshipCache, user_relationships, interactions[n].userId) :
         /\ interactions[n].pc = "evaluateRelationship"
         /\ LET call == interactions[n]
                llmRelEval == evaluateRelationship(result)
                relUpdates == IF llmRelEval.kind # "null"
                              THEN llmUpdates(llmRelEval)
                              ELSE fallbackUpdates(call.analysis, random)
                p1 == IF llmRelEval.kind # "null"
                      THEN trustIndicatorTraits(personality_state, llmRelEval)
                      ELSE personality_state
                rels == updateRelationship(user_relationships, relationshipCache,
                                           call.userId, relUpdates, fresh)
                cache == cacheAfterUpdate(relationshipCache, user_relationships,
                                          call.userId, fresh)
            IN /\ user_relationships' = rels
               \* evolveFromPatterns reads the relationship in the same tick
               /\ personality_state' =
                     IF call.interaction_count % 20 = 0
                     THEN evolveFromPatterns(p1, cachedRelationship(cache, rels,
                                                                   call.userId, TRUE))
                     ELSE p1
               /\ relationshipCache' =
                     IF call.interaction_count % 20 = 0
                     THEN cacheAfterGet(cache, rels, call.userId, TRUE)
                     ELSE cache
               /\ interactions' = [i \in 1..(Len(interactions) - 1) |->
                                      IF i < n THEN interactions[i] ELSE interactions[i + 1]]
               /\ lastInteraction' =
                     [kind |-> "processInteraction",
                      usedLLM |-> call.analysis.usedLLM,
                      llmRelEval |-> llmRelEval.kind # "null",
                      relUpdates |-> relUpdates,
                      \* whether evolveFromPatterns was called
                      evolved |-> (call.interaction_count % 20 = 0),
                      \* the interaction count the call read at its start
                      startedAt |-> call.interaction_count,
                      before |-> getRelationship(user_relationships, call.userId),
                      after |-> rels[call.userId]]
    /\ RelFrame

RelationshipResolves == RelationshipResolvesWith(RelAnswers \cup {NullResult})

\* evaluateRelationship returns null
RelationshipEvaluatorFails == RelationshipResolvesWith({NullResult})

DirectUpdates ==
    {[affection |-> Number(d), trust |-> Number(d), familiarity |-> Number(d),
      rivalry |-> Number(d), addJoke |-> FALSE, addNote |-> FALSE] : d \in {-1000, 1000}}

\* updateRelationship(userId, updates) called on its own
UpdateRelationship ==
    /\ \E userId \in Users, updates \in DirectUpdates :
       \E fresh \in Freshness(relationshipCache, user_relationships, userId) :
         /\ UpdatesStarted(userId) < MaxInteractions
         /\ user_relationships' = updateRelationship(user_relationships, relationshipCache,
                                                     userId, updates, fresh)
         /\ relationshipCache' = cacheAfterUpdate(relationshipCache, user_relationships,
                                                  userId, fresh)
         /\ lastInteraction' =
               [kind |-> "updateRelationship",
                relUpdates |-> updates,
                before |-> getRelationship(user_relationships, userId),
                after |-> user_relationships'[userId]]
    /\ UNCHANGED <<personality_state, interactions>>
    /\ RelFrame

\* getRelationship(userId) called on its own, as the prompt builders do
GetRelationship ==
    /\ \E userId \in Users :
       \E fresh \in Freshness(relationshipCache, user_relationships, userId) :
         relationshipCache' = cacheAfterGet(relationshipCache, user_relationships,
                                            userId, fresh)
    /\ UNCHANGED <<user_relationships, personality_state, interactions, lastInteraction>>
    /\ RelFrame

\* the messages of two calls that overlap: a greeting and a compliment
OverlapMessages ==
    {Message(0, 0, FALSE, FALSE, FALSE, FALSE, FALSE, FALSE),
     Message(3, 0, FALSE, TRUE, FALSE, FALSE, FALSE, FALSE)}

\* processInteraction called while other calls for the user are suspended
BeginOverlapping == BeginInteractionAmong(OverlapMessages, MaxOverlap)

\* the evaluator lowers every number but familiarity, or is unavailable
OverlapAnswers ==
    {RelAnswer(Number(-1000), Number(-1000), Number(-1000), Number(-1000), FALSE, FALSE,
               FALSE, FALSE),
     NullResult}

RelationshipResolvesOverlapped == RelationshipResolvesWith(OverlapAnswers)

\* ------------------------------------------------------ semantic search
\* searchMemories (memory.js), searchServerMemories (serverMemory.js) and
\* findSimilar (part_003).  The behaviour has one query; a row's similarity
\* is the cosine similarity of its vector to that query, in hundredths.
\* Importances are in hundredths too.  Rows are created in table order.
CACHE_ROWS == 500

Guilds == {"g1", "g2"}

\* what storeMemory is asked to store: the owner (Null for a global memory)
\* and the importance; the similarity is that of the embedding made for it
MemoryRows ==
    {[user_id |-> "u1", importance |-> 80, similarity |-> 50],
     [user_id |-> Null, importance |-> 50, similarity |-> 90]}

\* the embedded messages of a guild
VectorRows ==
    {[guild_id |-> "g1", channel_id |-> "c1", similarity |-> 90],
     [guild_id |-> "g1", channel_id |-> "c2", similarity |-> 50],
     [guild_id |-> "g2", channel_id |-> "c1", similarity |-> 90]}

Limits == {1, 5}

Thresholds == {30, 90}

\* the options a search is called with: a cut at one result at the default
\* threshold, and the default limit at a high threshold
SearchOptions == {[limit |-> 1, threshold |-> 30], [limit |-> 5, threshold |-> 90]}

\* a call ends with the first statement that throws
SearchFaults(stmts) == {{}} \cup {{stmt} : stmt \in stmts}

RECURSIVE DescendingOrder(_)
\* the positions of keys, by descending key, equal keys in their given order
DescendingOrder(keys) ==
    IF keys = <<>> THEN <<>>
    ELSE LET n == Len(keys)
             rest == DescendingOrder(SubSeq(keys, 1, n - 1))
             k == Cardinality({i \in 1..(n - 1) : keys[i] >= keys[n]})
         IN  SubSeq(rest, 1, k) \o <<n>> \o SubSeq(rest, k + 1, n - 1)

Reorder(s, order) == [i \in 1..Len(order) |-> s[order[i]]]

Keys(s, field) == [i \in 1..Len(s) |-> s[i][field]]

\* the same sort, ascending
sortBySimilarityAscending(results) ==
    Reorder(results, DescendingOrder([i \in 1..Len(results) |-> 0 - results[i].similarity]))

\* results.sort((a, b) => b.similarity - a.similarity): Array.prototype.sort is stable
sortBySimilarity(results) == Reorder(results, DescendingOrder(Keys(results, "similarity")))

\* the threshold test with a strict comparison
atLeastStrict(similarity, threshold) == similarity > threshold

\* similarity >= threshold
atLeast(similarity, threshold) == similarity >= threshold

\* .slice(0, limit)
slice(s, limit) == SubSeq(s, 1, MathMin(limit, Len(s)))

Ids(s, field) == [i \in 1..Len(s) |-> s[i][field]]

\* findSimilar(queryEmbedding, items, topK, threshold)
findSimilar(items, topK, threshold) ==
    LET mapped == [i \in 1..Len(items) |->
                      [id |-> items[i].id, similarity |-> items[i].similarity]]
        passing == SelectSeq(mapped, LAMBDA r : atLeast(r.similarity, threshold))
    IN  slice(sortBySimilarity(passing), topK)

\* getAllEmbeddings.all(userId, 500): WHERE sm.user_id IS NULL OR sm.user_id = ?
\* ORDER BY sm.importance DESC LIMIT ?, as the entries refreshEmbeddingCache sets
getAllEmbeddings(rows, userId) ==
    LET entries == [i \in 1..Len(rows) |->
                       [memoryId |-> i, userId |-> rows[i].user_id,
                        importance |-> rows[i].importance,
                        similarity |-> rows[i].similarity]]
        joined == SelectSeq(entries, LAMBDA e :
                      /\ rows[e.memoryId].embedded
                      /\ e.userId = Null \/ (userId # Null /\ e.userId = userId))
    IN  slice(Reorder(joined, DescendingOrder(Keys(joined, "importance"))), CACHE_ROWS)

\* getMemoriesByUser.all(userId, limit): ORDER BY importance DESC, created_at DESC
getMemoriesByUser(rows, userId, limit) ==
    LET entries == [i \in 1..Len(rows) |->
                       [memoryId |-> i, userId |-> rows[i].user_id,
                        key |-> rows[i].importance * (MaxStored + 2) + i]]
        owned == SelectSeq(entries, LAMBDA e : e.userId = userId)
    IN  slice(Reorder(owned, DescendingOrder(Keys(owned, "key"))), limit)

\* getRecentMemories.all(limit): ORDER BY created_at DESC
getRecentMemories(rows, limit) ==
    LET entries == [i \in 1..Len(rows) |-> [memoryId |-> i]]
    IN  slice(Reorder(entries, DescendingOrder(Keys(entries, "memoryId"))), limit)

\* getEmbeddedMessages.all(guildId, limit): WHERE sm.guild_id = ?
\* ORDER BY sm.discord_created_at DESC; the selected columns have no guild
getEmbeddedMessages(rows, guildId) ==
    LET entries == [i \in 1..Len(rows) |->
                       [id |-> i, channel_id |-> rows[i].channel_id,
                        similarity |-> rows[i].similarity]]
        ofGuild == SelectSeq(entries, LAMBDA e : rows[e.id].guild_id = guildId)
    IN  slice(Reorder(ofGuild, DescendingOrder(Keys(ofGuild, "id"))), CACHE_ROWS)

\* the loop without its test of the owner
rankMemoriesAnyOwner(cache, userId, limit, threshold) ==
    LET results == SelectSeq(cache, LAMBDA cached : atLeast(cached.similarity, threshold))
    IN  slice(sortBySimilarity(results), limit)

\* the loop, sort and slice of searchMemories
rankMemories(cache, userId, limit, threshold) ==
    LET results == SelectSeq(cache, LAMBDA cached :
                       /\ ~(userId # Null /\ cached.userId # Null /\ cached.userId # userId)
                       /\ atLeast(cached.similarity, threshold))
    IN  slice(sortBySimilarity(results), limit)

\* the loop, sort and slice of searchServerMemories
rankServerMemories(cache, channelId, limit, threshold) ==
    LET matches == SelectSeq(cache, LAMBDA msg :
                       /\ ~(channelId # Null /\ msg.channel_id # channelId)
                       /\ atLeast(msg.similarity, threshold))
    IN  slice(sortBySimilarity(matches), limit)

NoSearch == [fn |-> "none"]

Searched(fn, scope, limit, threshold, embedded, threw, outcome, results) ==
    [fn |-> fn, scope |-> scope, limit |-> limit, threshold |-> threshold,
     embedded |-> embedded, threw |-> threw, outcome |-> outcome, results |-> results]

MemorySearchStmts == {"getMemoriesByUser", "getRecentMemories", "getAllEmbeddings",
                      "updateMemoryAccess"}

\* getRecentMemoriesForContext(userId, limit)
getRecentMemoriesForContext(rows, userId, limit, plan) ==
    LET stmt == IF userId # Null THEN "getMemoriesByUser" ELSE "getRecentMemories"
    IN  IF stmt \in plan
        THEN [threw |-> {stmt}, thrown |-> TRUE, outcome |-> "threw", results |-> <<>>,
              accessed |-> <<>>]
        ELSE [threw |-> {}, thrown |-> FALSE, outcome |-> "fallback", accessed |-> <<>>,
              results |-> Ids(IF userId # Null THEN getMemoriesByUser(rows, userId, limit)
                                        ELSE getRecentMemories(rows, limit), "memoryId")]

\* searchMemories from the loop over the cache to its return
searchLoop(cache, userId, limit, threshold, plan) ==
    LET ranked == rankMemories(cache, userId, limit, threshold)
        \* results.push(...) and updateMemoryAccess.run(cached.memoryId), for
        \* each entry of the cache that passes the two tests
        pushed == rankMemories(cache, userId, Len(cache), threshold)
    IN  \* updateMemoryAccess runs for each match
        IF "updateMemoryAccess" \in plan /\ pushed # <<>>
        THEN [threw |-> {"updateMemoryAccess"}, thrown |-> TRUE, outcome |-> "threw",
              results |-> <<>>, accessed |-> <<>>]
        ELSE [threw |-> {}, thrown |-> FALSE, outcome |-> "ranked",
              results |-> Ids(ranked, "memoryId"),
              accessed |-> Ids(pushed, "memoryId")]

\* searchMemories without its try/catch
searchNoCatch(r) == r

\* catch (error) { return []; }
searchCatch(r) ==
    IF r.thrown THEN [r EXCEPT !.thrown = FALSE, !.outcome = "error", !.results = <<>>]
    ELSE r

SearchFrame == UNCHANGED searchRest

\* The two services share no state: a behaviour fills the store of one of them.
StoredRows == Len(semantic_memories) + Len(guild_vectors)

\* storeMemory(...), from the return of generateEmbedding
StoreMemoryFrom(rows) ==
    /\ StoredRows < MaxStored
    /\ guild_vectors = <<>>
    /\ \E row \in rows :
         \* embeddingId stays null without an embedding service
         semantic_memories' = Append(semantic_memories,
             [user_id |-> row.user_id, importance |-> row.importance,
              embedded |-> embeddingAvailable, similarity |-> row.similarity])
    \* cacheLastUpdated = 0
    /\ cacheExpired' = TRUE
    /\ memoryAged' = FALSE
    /\ lastSearch' = NoSearch
    /\ UNCHANGED <<embeddingCache, guild_vectors, serverEmbeddingCache, serverCacheExpired,
                   searches, vectorAged, refreshedSinceWrite>>
    /\ SearchFrame

\* the memories of one user and the global ones
StoreMemory == StoreMemoryFrom(MemoryRows)

\* the memories of two users and the global ones
OwnerRows ==
    {[user_id |-> "u1", importance |-> 80, similarity |-> 50],
     [user_id |-> "u2", importance |-> 80, similarity |-> 90],
     [user_id |-> Null, importance |-> 50, similarity |-> 90]}

StoreOwnedMemory == StoreMemoryFrom(OwnerRows)

\* processBatch has stored the vector of one more message of a guild
VectorStoredFrom(rows) ==
    /\ StoredRows < MaxStored
    /\ semantic_memories = <<>>
    /\ embeddingAvailable
    /\ \E row \in rows : guild_vectors' = Append(guild_vectors, row)
    /\ vectorAged' = FALSE
    /\ refreshedSinceWrite' = FALSE
    /\ lastSearch' = NoSearch
    /\ UNCHANGED <<semantic_memories, embeddingCache, cacheExpired, serverEmbeddingCache,
                   serverCacheExpired, searches, memoryAged>>
    /\ SearchFrame

\* the messages of one guild
VectorStored == VectorStoredFrom({row \in VectorRows : row.guild_id = "g1"})

\* the messages of every guild
VectorStoredAnyGuild == VectorStoredFrom(VectorRows)

\* Five minutes have passed since a cache was filled, and so since every
\* write that came before the fill.  The memory cache is within its TTL only
\* when it was filled after the last storeMemory.
TtlElapses ==
    /\ \/ /\ ~cacheExpired
          /\ cacheExpired' = TRUE
          /\ memoryAged' = (memoryAged \/ semantic_memories # <<>>)
          /\ UNCHANGED <<serverCacheExpired, vectorAged>>
       \/ /\ ~serverCacheExpired
          /\ serverCacheExpired' = TRUE
          /\ vectorAged' = (vectorAged \/ (refreshedSinceWrite /\ guild_vectors # <<>>))
          /\ UNCHANGED <<cacheExpired, memoryAged>>
    /\ lastSearch' = NoSearch
    /\ UNCHANGED <<semantic_memories, embeddingCache, guild_vectors, serverEmbeddingCache,
                   searches, refreshedSinceWrite>>
    /\ SearchFrame

\* Five minutes have passed since the last write of a store, and so since
\* every fill of its cache that came before that write.
WriteAges ==
    /\ \/ /\ semantic_memories # <<>>
          /\ ~memoryAged
          /\ memoryAged' = TRUE
          /\ UNCHANGED <<serverCacheExpired, vectorAged>>
       \/ /\ guild_vectors # <<>>
          /\ ~vectorAged
          /\ vectorAged' = TRUE
          /\ serverCacheExpired' = (serverCacheExpired \/ ~refreshedSinceWrite)
          /\ UNCHANGED memoryAged
    /\ lastSearch' = NoSearch
    /\ UNCHANGED <<semantic_memories, embeddingCache, cacheExpired, guild_vectors,
                   serverEmbeddingCache, searches, refreshedSinceWrite>>
    /\ SearchFrame

\* a refresh that does not look at the age of the cache
refreshEmbeddingCacheAlways(cache, expired, rows, userId, plan) ==
    IF "getAllEmbeddings" \in plan
    THEN [cache |-> <<>>, expired |-> expired, threw |-> {"getAllEmbeddings"}]
    ELSE [cache |-> getAllEmbeddings(rows, userId), expired |-> FALSE, threw |-> {}]

\* refreshEmbeddingCache(userId) of memory.js: clear(), then the statement,
\* inside its own try/catch
refreshEmbeddingCache(cache, expired, rows, userId, plan) ==
    IF ~expired THEN [cache |-> cache, expired |-> expired, threw |-> {}]
    ELSE IF "getAllEmbeddings" \in plan
    THEN [cache |-> <<>>, expired |-> expired, threw |-> {"getAllEmbeddings"}]
    ELSE [cache |-> getAllEmbeddings(rows, userId), expired |-> FALSE, threw |-> {}]

\* searchMemories(query, { userId, limit, threshold }) from the return of
\* generateEmbedding (or from its start when no embedding service is
\* configured) to its own return.  The await of refreshEmbeddingCache gives
\* way to continuations that are already due only, and is not a step here.
SearchMemoriesBy(userIds) ==
    /\ \E userId \in userIds, options \in SearchOptions,
          success \in BOOLEAN, plan \in SearchFaults(MemorySearchStmts) :
         LET limit == options.limit
             threshold == options.threshold
         IN
         IF ~embeddingAvailable \/ ~success
         THEN LET r == searchCatch(getRecentMemoriesForContext(semantic_memories, userId,
                                                               limit, plan))
              IN  /\ r.threw = plan
                  /\ lastSearch' = Searched("searchMemories", userId, limit, threshold,
                                            FALSE, r.threw, r.outcome, r.results)
                                   @@ [accessed |-> r.accessed]
                  /\ UNCHANGED <<embeddingCache, cacheExpired>>
         ELSE LET c == refreshEmbeddingCache(embeddingCache, cacheExpired,
                                             semantic_memories, userId, plan)
                  r == searchCatch(searchLoop(c.cache, userId, limit, threshold, plan))
              IN  /\ c.threw \cup r.threw = plan
                  /\ embeddingCache' = c.cache
                  /\ cacheExpired' = c.expired
                  /\ lastSearch' = Searched("searchMemories", userId, limit, threshold,
                                            TRUE, plan, r.outcome, r.results)
                                   \* the memories whose access_count this search
                                   \* raised by one, one entry for each UPDATE
                                   @@ [accessed |-> r.accessed]
    /\ UNCHANGED <<semantic_memories, guild_vectors, serverEmbeddingCache,
                   serverCacheExpired, searches, memoryAged, vectorAged,
                   refreshedSinceWrite>>
    /\ SearchFrame

\* the searches of one user, and those with no user
SearchMemories == SearchMemoriesBy({Null, "u1"})

\* the searches of two users, and those with no user
SearchOwnedMemories == SearchMemoriesBy({Null, "u1", "u2"})

Without(s, n) == [i \in 1..(Len(s) - 1) |-> IF i < n THEN s[i] ELSE s[i + 1]]

\* searchServerMemories(query, { guildId, ... }) up to `await generateEmbedding(query)`
SearchServerMemoriesIn(guilds) ==
    /\ \E guildId \in guilds \cup {Null}, plan \in SearchFaults({"getEmbeddedMessages"}) :
         IF guildId = Null \/ ~embeddingAvailable
         THEN /\ plan = {}
              /\ lastSearch' = Searched("searchServerMemories", Null, 5, 30, FALSE, {},
                                        "empty", <<>>)
              /\ UNCHANGED <<serverEmbeddingCache, serverCacheExpired, searches,
                             refreshedSinceWrite>>
         ELSE /\ Len(searches) < MaxSearches
              \* refreshEmbeddingCache(guildId): nothing to do before the TTL has elapsed
              /\ IF ~serverCacheExpired
                 THEN /\ plan = {}
                      /\ UNCHANGED <<serverEmbeddingCache, serverCacheExpired,
                                     refreshedSinceWrite>>
                 ELSE IF plan # {}
                 THEN UNCHANGED <<serverEmbeddingCache, serverCacheExpired,
                                  refreshedSinceWrite>>
                 ELSE /\ serverEmbeddingCache' = getEmbeddedMessages(guild_vectors, guildId)
                      /\ serverCacheExpired' = FALSE
                      /\ refreshedSinceWrite' = TRUE
              /\ lastSearch' = NoSearch
              /\ searches' = Append(searches, [fn |-> "searchServerMemories",
                                               scope |-> guildId, threw |-> plan])
    /\ UNCHANGED <<semantic_memories, embeddingCache, cacheExpired, guild_vectors,
                   memoryAged, vectorAged>>
    /\ SearchFrame

\* searches of one guild
SearchServerMemories == SearchServerMemoriesIn({"g1"})

\* searches of every guild
SearchAnyGuild == SearchServerMemoriesIn(Guilds)

\* searchServerMemories from the return of generateEmbedding
ServerSearchResolves ==
    /\ \E n \in DOMAIN searches, channelId \in {Null, "c1"}, options \in SearchOptions,
          success \in BOOLEAN :
         /\ searches[n].fn = "searchServerMemories"
         /\ LET limit == options.limit
                threshold == options.threshold
            IN lastSearch' =
               IF ~success
               THEN Searched("searchServerMemories", channelId, limit, threshold, FALSE,
                             searches[n].threw, "empty", <<>>)
               ELSE \* the guild the search was called with is on record as well
                    Searched("searchServerMemories", channelId, limit, threshold, TRUE,
                             searches[n].threw, "ranked",
                             Ids(rankServerMemories(serverEmbeddingCache, channelId, limit,
                                                    threshold), "id"))
                    @@ [guildId |-> searches[n].scope]
         /\ searches' = Without(searches, n)
    /\ UNCHANGED <<semantic_memories, embeddingCache, cacheExpired, guild_vectors,
                   serverEmbeddingCache, serverCacheExpired, memoryAged, vectorAged,
                   refreshedSinceWrite>>
    /\ SearchFrame

\* findSimilar(queryEmbedding, items, topK, threshold) over the cached messages
FindSimilar ==
    /\ \E options \in SearchOptions :
         lastSearch' = Searched("findSimilar", Null, options.limit, options.threshold,
                                TRUE, {}, "ranked",
                                Ids(findSimilar(serverEmbeddingCache, options.limit,
                                                options.threshold), "id"))
    /\ UNCHANGED <<semantic_memories, embeddingCache, cacheExpired, guild_vectors,
                   serverEmbeddingCache, serverCacheExpired, searches, memoryAged,
                   vectorAged, refreshedSinceWrite>>
    /\ SearchFrame

\* ----------------------------------------------------------- summarizer
\* Times are in days: datetime('now', '-24 hours') is today - 1 and
\* datetime('now', '-7 days') is today - 7.  The text of a summary, its
\* participants and the channel it is about are left out; what the summarize
\* contract returns (nothing, or a summary with its topics) is an input.
TopicGuilds == {"g1"}
TopicNames == {"t1"}
TopicKeys == TopicGuilds \X TopicNames
PeriodTypes == {"hourly", "daily"}

NoTopic == [status |-> "none", last_seen_at |-> 0, mention_count |-> 0]

\* what generateSummary comes to: null (fewer than 3 messages, no summary
\* from the contract, or a statement before the topic loop threw), or a
\* stored summary with its topics, the upsert of a topic throwing or not
SummaryResults ==
    {[stored |-> FALSE, topics |-> <<>>, upsertThrows |-> FALSE]}
    \cup {[stored |-> TRUE, topics |-> ts, upsertThrows |-> f] :
             ts \in {<<>>} \cup {<<n>> : n \in TopicNames}, f \in BOOLEAN}

\* INSERT INTO active_topics (...) VALUES (?, ?, ?, ?, datetime('now'), 1)
\* ON CONFLICT(guild_id, topic_name) DO UPDATE SET last_seen_at = datetime('now'),
\*   mention_count = mention_count + 1, status = 'active'
upsertTopic(t, key, day) ==
    IF t[key] = NoTopic
    THEN [t EXCEPT ![key] = [status |-> "active", last_seen_at |-> day, mention_count |-> 1]]
    ELSE [t EXCEPT ![key] = [status |-> "active", last_seen_at |-> day,
                             mention_count |-> @.mention_count + 1]]

\* the same UPDATE without `AND status = 'active'`
coolDownTopicsAnyStatus(t, guildId, day) ==
    [k \in DOMAIN t |->
        IF t[k] # NoTopic /\ k[1] = guildId /\ t[k].last_seen_at < day - 1
        THEN [t[k] EXCEPT !.status = "cooling"] ELSE t[k]]

\* UPDATE active_topics SET status = 'cooling' WHERE guild_id = ?
\*   AND status = 'active' AND last_seen_at < datetime('now', '-24 hours')
coolDownTopics(t, guildId, day) ==
    [k \in DOMAIN t |->
        IF /\ t[k] # NoTopic /\ k[1] = guildId /\ t[k].status = "active"
           /\ t[k].last_seen_at < day - 1
        THEN [t[k] EXCEPT !.status = "cooling"] ELSE t[k]]

\* UPDATE active_topics SET status = 'dormant' WHERE guild_id = ?
\*   AND status = 'cooling' AND last_seen_at < datetime('now', '-7 days')
archiveTopics(t, guildId, day) ==
    [k \in DOMAIN t |->
        IF /\ t[k] # NoTopic /\ k[1] = guildId /\ t[k].status = "cooling"
           /\ t[k].last_seen_at < day - 7
        THEN [t[k] EXCEPT !.status = "dormant"] ELSE t[k]]

\* the summarizer's initDatabase(): returns at once when `db` is set; the
\* prepare of upsertTopic is rejected ("ON CONFLICT clause does not match any
\* PRIMARY KEY or UNIQUE constraint") unless the table has the unique index,
\* and the catch block then leaves `db` set and `statements` unset for good
summarizerInit(conn) ==
    IF conn # "closed" THEN conn
    ELSE IF topicsUnique THEN "ready" ELSE "prepare_failed"

\* the state the summarizer's statements work on: [t, s, ops]
SummarizerDb == [t |-> active_topics, s |-> channel_summaries, ops |-> {}]

RECURSIVE upsertTopics(_, _, _, _, _)
\* for (const topic of summary.topics) { try { upsertTopic } catch (e) {} }
upsertTopics(d, guildId, topics, k, throws) ==
    IF k > Len(topics) THEN d
    ELSE upsertTopics(
            IF throws THEN d
            ELSE [d EXCEPT !.t = upsertTopic(@, <<guildId, topics[k]>>, today),
                           !.ops = @ \cup {<<"upsertTopic", <<guildId, topics[k]>>>>}],
            guildId, topics, k + 1, throws)

\* generateSummary from the return of the summarize contract to its end
generateSummary(d, guildId, periodType, result) ==
    IF ~result.stored THEN d
    ELSE upsertTopics([d EXCEPT !.s = @ \cup {<<guildId, periodType>>}],
                      guildId, result.topics, 1, result.upsertThrows)

\* the statement that ends a pass: coolDownTopics after the hourly summaries,
\* archiveTopics after the daily ones; a throw goes to the pass's catch block
endOfPass(d, periodType, guildId, throws) ==
    IF throws THEN d
    ELSE IF periodType = "hourly"
    THEN [d EXCEPT !.t = coolDownTopics(@, guildId, today),
                   !.ops = @ \cup {<<"coolDownTopics", guildId>>}]
    ELSE [d EXCEPT !.t = archiveTopics(@, guildId, today),
                   !.ops = @ \cup {<<"archiveTopics", guildId>>}]

NoTopicStep == [ops |-> {}, from |-> [k \in TopicKeys |-> "none"]]

\* a summarizer step leaves the database as d
SummarizerWrites(d) ==
    /\ active_topics' = d.t
    /\ channel_summaries' = d.s
    /\ lastTopicStep' = [ops |-> d.ops,
                         from |-> [k \in TopicKeys |-> active_topics[k].status]]

Mentions(result) == {result.topics[k] : k \in DOMAIN result.topics}

\* mention_count stays within the bound
WithinMentions(guildId, result) ==
    \A n \in Mentions(result) : active_topics[<<guildId, n>>].mention_count < MaxMentions

\* runHourlySummaries(guildId) / runDailySummaries(guildId) up to the first
\* `await generateSummary`, or to the end when no channel was active
beginPass(periodTypes, guildIds) ==
    /\ Len(passes) < MaxPasses
    /\ \E periodType \in periodTypes, guildId \in guildIds,
          channels \in 0..MaxChannels, throws \in BOOLEAN :
         LET conn == summarizerInit(summarizerDb) IN
         /\ summarizerDb' = conn
         /\ IF conn # "ready"
            THEN \* if (!statements) return
                 /\ ~throws /\ channels = 0
                 /\ UNCHANGED <<active_topics, channel_summaries, passes, lastTopicStep>>
            ELSE IF channels = 0
            THEN \* getActiveChannels or the closing statement may throw: catch
                 /\ SummarizerWrites(endOfPass(SummarizerDb, periodType, guildId, throws))
                 /\ UNCHANGED passes
            ELSE /\ ~throws
                 /\ passes' = Append(passes, [periodType |-> periodType,
                                              guildId |-> guildId, left |-> channels])
                 /\ UNCHANGED <<active_topics, channel_summaries, lastTopicStep>>
    /\ UNCHANGED <<topicsUnique, today>>

\* a pass called on its own
BeginPass == beginPass(PeriodTypes, TopicGuilds) /\ UNCHANGED topicRest

\* a pass from the return of one summarize call to the next await or its end
SummaryResolves ==
    \E n \in DOMAIN passes, result \in SummaryResults, throws \in BOOLEAN :
      LET pass == passes[n]
          d == generateSummary(SummarizerDb, pass.guildId, pass.periodType, result)
      IN /\ WithinMentions(pass.guildId, result)
         /\ IF pass.left > 1
            THEN /\ ~throws
                 /\ SummarizerWrites(d)
                 /\ passes' = [passes EXCEPT ![n].left = @ - 1]
            ELSE /\ SummarizerWrites(endOfPass(d, pass.periodType, pass.guildId, throws))
                 /\ passes' = [i \in 1..(Len(passes) - 1) |->
                                  IF i < n THEN passes[i] ELSE passes[i + 1]]
         /\ UNCHANGED <<topicsUnique, summarizerDb, today, topicRest>>

\* triggerSummary(channelId, guildId, periodType): generateSummary on its own
TriggerSummary ==
    /\ \E periodType \in PeriodTypes, guildId \in TopicGuilds, result \in SummaryResults :
         LET conn == summarizerInit(summarizerDb) IN
         /\ summarizerDb' = conn
         /\ WithinMentions(guildId, result)
         /\ IF conn # "ready"
            THEN /\ ~result.stored
                 /\ UNCHANGED <<active_topics, channel_summaries, lastTopicStep>>
            ELSE SummarizerWrites(generateSummary(SummarizerDb, guildId, periodType, result))
    /\ UNCHANGED <<topicsUnique, passes, today, topicRest>>

\* a day goes by
TopicDayPasses ==
    /\ today < MaxDays
    /\ today' = today + 1
    /\ UNCHANGED <<topicsUnique, summarizerDb, active_topics, channel_summaries, passes,
                   lastTopicStep, topicRest>>

\* ------------------------------------------------------- summary scheduler
\* startScheduler(guildId) and stopScheduler() of the summarizer.  Every
\* call is for the one guild; both kinds of summary are enabled.
NoRun == [fired |-> FALSE]

Timer(type, kind, epoch) == [type |-> type, kind |-> kind, epoch |-> epoch, live |-> TRUE]

\* if (config.HOURLY_SUMMARY_ENABLED && !hourlyInterval) setTimeout(...), and
\* the same for the daily summaries
startScheduler(ts) ==
    LET hourly == IF hourlyInterval = 0 THEN <<Timer("timeout", "hourly", stops)>> ELSE <<>>
        daily == IF dailyInterval = 0 THEN <<Timer("timeout", "daily", stops)>> ELSE <<>>
    IN  IF ~SERVER_MEMORY_ENABLED THEN ts ELSE ts \o hourly \o daily

SchedulerFrame == UNCHANGED <<queueVars, relVars, moodVars, searchVars, ambientVars>>

StartScheduler ==
    /\ Len(startScheduler(timers)) <= MaxTimers
    /\ timers' = startScheduler(timers)
    /\ UNCHANGED <<hourlyInterval, dailyInterval, stops, lastRun, topicVars>>
    /\ SchedulerFrame

\* clearInterval(handle)
clearInterval(ts, handle) == IF handle = 0 THEN ts ELSE [ts EXCEPT ![handle].live = FALSE]

\* stopScheduler(): the two handles, when set
stopScheduler(ts) == clearInterval(clearInterval(ts, hourlyInterval), dailyInterval)

StopScheduler ==
    /\ stops < MaxStops
    /\ timers' = stopScheduler(timers)
    /\ hourlyInterval' = 0
    /\ dailyInterval' = 0
    /\ stops' = stops + 1
    /\ UNCHANGED <<lastRun, topicVars>>
    /\ SchedulerFrame

\* the callback of a setTimeout of startScheduler: the first run, up to its
\* first await, and the setInterval whose handle it keeps
TimeoutFires ==
    /\ Len(timers) < MaxTimers
    /\ \E i \in DOMAIN timers :
         /\ timers[i].type = "timeout" /\ timers[i].live
         /\ beginPass({timers[i].kind}, TopicGuilds)
         /\ timers' = Append([timers EXCEPT ![i].live = FALSE],
                             Timer("interval", timers[i].kind, timers[i].epoch))
         /\ IF timers[i].kind = "hourly"
            THEN hourlyInterval' = Len(timers) + 1 /\ UNCHANGED dailyInterval
            ELSE dailyInterval' = Len(timers) + 1 /\ UNCHANGED hourlyInterval
         /\ lastRun' = [fired |-> TRUE, kind |-> timers[i].kind, epoch |-> timers[i].epoch,
                        stops |-> stops]
    /\ UNCHANGED stops
    /\ SchedulerFrame

\* the callback of a setInterval: a later run, up to its first await
IntervalFires ==
    /\ \E i \in DOMAIN timers :
         /\ timers[i].type = "interval" /\ timers[i].live
         /\ beginPass({timers[i].kind}, TopicGuilds)
         /\ lastRun' = [fired |-> TRUE, kind |-> timers[i].kind, epoch |-> timers[i].epoch,
                        stops |-> stops]
    /\ UNCHANGED <<timers, hourlyInterval, dailyInterval, stops>>
    /\ SchedulerFrame

\* no timer yet
SchedulerAtStart ==
    /\ timers = <<>>
    /\ hourlyInterval = 0
    /\ dailyInterval = 0
    /\ stops = 0
    /\ lastRun = NoRun

\* ------------------------------------------------------- specifications
\* the queue service and the tables before the first message
QueueAtStart ==
    /\ server_messages = <<>>
    /\ channel_metadata = 0
    /\ embedding_queue = <<>>
    /\ nextQueueId = 1
    /\ server_embeddings = <<>>
    /\ isProcessing = FALSE
    /\ processorInterval = FALSE
    /\ pendingTimeouts = 0
    /\ inflight = <<>>
    /\ droppedTrigger = FALSE
    /\ ingestionDb = "closed"
    /\ ingestResult = [returned |-> Skipped("none"), threw |-> {}]
    /\ faultsUsed = 0
    /\ lastBatch = NoBatch

\* no memory stored, no vector cached, no search under way
SearchAtStart ==
    /\ semantic_memories = <<>>
    /\ embeddingCache = <<>>
    /\ cacheExpired = TRUE
    /\ guild_vectors = <<>>
    /\ serverEmbeddingCache = <<>>
    /\ serverCacheExpired = TRUE
    /\ searches = <<>>
    /\ lastSearch = NoSearch
    /\ memoryAged = FALSE
    /\ vectorAged = FALSE
    /\ refreshedSinceWrite = FALSE

\* ------------------------------------------------------ ambient context
AmbientChannels == {"c1", "c2"}

AmbientAuthors == {"u1", "u2"}

NoAmbient == [kind |-> "none"]

\* the rows as the two statements select them
NoticedRows(rows) ==
    [i \in 1..Len(rows) |->
        [id |-> i, channel_id |-> rows[i].channel_id, author_id |-> rows[i].author_id,
         discord_created_at |-> i]]

\* getRecentChannelMessages.all(channelId, timeWindow, limit):
\* WHERE sm.channel_id = ? ... ORDER BY sm.discord_created_at DESC LIMIT ?
getRecentChannelMessages(rows, channelId, limit) ==
    LET ofChannel == SelectSeq(NoticedRows(rows), LAMBDA m : m.channel_id = channelId)
    IN  slice(Reorder(ofChannel, DescendingOrder(Keys(ofChannel, "discord_created_at"))),
              limit)

\* getRecentGuildMessages.all(guildId, timeWindow, limit):
\* WHERE sm.guild_id = ? ... ORDER BY sm.discord_created_at DESC LIMIT ?
getRecentGuildMessages(rows, limit) ==
    LET ofGuild == NoticedRows(rows)
    IN  slice(Reorder(ofGuild, DescendingOrder(Keys(ofGuild, "discord_created_at"))), limit)

\* result.sort((a, b) => a.isPriority !== b.isPriority ? (b.isPriority ? 1 : -1) : 0):
\* the sort is stable
priorityFirst(result) ==
    SelectSeq(result, LAMBDA e : e.isPriority) \o SelectSeq(result, LAMBDA e : ~e.isPriority)

\* getAmbientContext(guildId, channelId, { mentionedUserIds }) with the default
\* limit of 10; an entry keeps the time its timeAgo is made from
getAmbientContext(rows, channelId, mentionedUserIds) ==
    LET messages == getRecentChannelMessages(rows, channelId, 10)
        guildMessages == getRecentGuildMessages(rows, 10 * 2)
        seen == {messages[i].id : i \in DOMAIN messages}
        otherChannels == SelectSeq(guildMessages, LAMBDA m : m.id \notin seen)
        entry(msg, type) ==
            [type |-> type, channelId |-> msg.channel_id, authorId |-> msg.author_id,
             discord_created_at |-> msg.discord_created_at,
             isPriority |-> msg.author_id \in mentionedUserIds]
        same == slice(messages, 5)
        other == slice(otherChannels, 3)
    IN  priorityFirst([i \in DOMAIN same |-> entry(same[i], "same_channel")]
                      \o [i \in DOMAIN other |-> entry(other[i], "other_channel")])

AmbientFrame == UNCHANGED ambientRest

\* a message of the guild is stored
MessageNoticed ==
    /\ Len(recent_messages) < MaxNoticed
    /\ \E channelId \in AmbientChannels, authorId \in AmbientAuthors :
         recent_messages' = Append(recent_messages,
                                   [channel_id |-> channelId, author_id |-> authorId])
    /\ lastAmbient' = NoAmbient
    /\ AmbientFrame

\* getAmbientContext is called; a statement that throws gives []
GetAmbientContext ==
    /\ \E channelId \in AmbientChannels, mentionedUserIds \in SUBSET AmbientAuthors,
          threw \in BOOLEAN :
         lastAmbient' =
            [kind |-> "result", channelId |-> channelId,
             mentionedUserIds |-> mentionedUserIds,
             result |-> IF threw THEN <<>>
                        ELSE getAmbientContext(recent_messages, channelId, mentionedUserIds)]
    /\ UNCHANGED recent_messages
    /\ AmbientFrame

AmbientAtStart ==
    /\ recent_messages = <<>>
    /\ lastAmbient = NoAmbient

\* the summarizer has not opened the database, and no topic is known
TopicsAtStart ==
    /\ summarizerDb = "closed"
    /\ active_topics = [k \in TopicKeys |-> NoTopic]
    /\ channel_summaries = {}
    /\ passes = <<>>
    /\ today = 0
    /\ lastTopicStep = NoTopicStep

\* the personality tables after initializePersonality(), no user known yet
PersonalityAtStart ==
    /\ user_relationships = [u \in Users |-> NoRow]
    /\ relationshipCache = [u \in Users |-> NoRow]
    /\ personality_state =
          [current_mood |-> "neutral",
           traits |-> [t \in DOMAIN PersonalityDimensions |-> PersonalityDimensions[t].base],
           \* the keys of traits that are not traits
           inherited |-> {},
           evolution |-> <<>>]
    /\ interactions = <<>>
    /\ lastInteraction = [kind |-> "none"]
    /\ now = 0
    /\ mood_started_at = 0
    /\ personalityCache = NoCache
    /\ lastCacheUpdate = 0
    /\ evolveCalls = [clamped |-> 0, unclamped |-> 0]
    /\ lastRead = [kind |-> "none"]

InitQueue ==
    /\ SERVER_MEMORY_ENABLED \in BOOLEAN
    /\ embeddingAvailable \in BOOLEAN
    /\ EMBEDDING_BATCH_SIZE = BatchSize
    /\ faultBudget = MaxFaults
    /\ QueueAtStart
    /\ PersonalityAtStart
    /\ SearchAtStart
    /\ topicsUnique = FALSE
    /\ TopicsAtStart
    /\ AmbientAtStart
    /\ SchedulerAtStart

NextQueue ==
    \/ IngestMessage(FALSE, QueueDeliveries)
    \/ TimerFires
    \/ InitialRunFires
    \/ ProcessNow
    \/ EmbeddingResolves
    \/ StartProcessor
    \/ StopProcessor
    \/ CleanupOldItems
    \/ DayPasses

SpecQueue == InitQueue /\ [][NextQueue]_vars

\* the worker on batches of more than one item, with room for a second
\* statement failure: two messages worth embedding are delivered, and
\* processNow() runs the batches
\* (the later message is the more important one: the batch takes it first)
BatchScored(i) == IF i = 1 THEN [content |-> "b", score |-> 30]
                           ELSE [content |-> "c", score |-> 80]

BatchDeliveries == {Delivery(i, BatchScored(i).content, BatchScored(i).score,
                             FALSE, TRUE, "general") : i \in 1..(MaxMessages + 1)}

InitBatch ==
    /\ SERVER_MEMORY_ENABLED = TRUE
    /\ embeddingAvailable = TRUE
    /\ EMBEDDING_BATCH_SIZE = BatchSize + 1
    /\ faultBudget = MaxFaults + 1
    /\ QueueAtStart
    /\ PersonalityAtStart
    /\ SearchAtStart
    /\ topicsUnique = FALSE
    /\ TopicsAtStart
    /\ AmbientAtStart
    /\ SchedulerAtStart

NextBatch ==
    \/ IngestMessage(FALSE, BatchDeliveries)
    \/ ProcessNow
    \/ EmbeddingResolves

SpecBatch == InitBatch /\ [][NextBatch]_vars

\* The worker after startProcessor(), never stopped: two messages worth
\* embedding, batches of one.  The interval timer keeps firing and every
\* embedding call returns.
SettleDeliveries == {Delivery(i, BatchScored(i).content, BatchScored(i).score,
                              FALSE, TRUE, "general") : i \in {1, 2}}

InitSettle ==
    /\ SERVER_MEMORY_ENABLED = TRUE
    /\ embeddingAvailable = TRUE
    /\ EMBEDDING_BATCH_SIZE = BatchSize
    /\ faultBudget = MaxFaults
    \* after startProcessor()
    /\ server_messages = <<>>
    /\ channel_metadata = 0
    /\ embedding_queue = <<>>
    /\ nextQueueId = 1
    /\ server_embeddings = <<>>
    /\ isProcessing = FALSE
    /\ processorInterval = TRUE
    /\ pendingTimeouts = 1
    /\ inflight = <<>>
    /\ droppedTrigger = FALSE
    /\ ingestionDb = "closed"
    /\ ingestResult = [returned |-> Skipped("none"), threw |-> {}]
    /\ faultsUsed = 0
    /\ lastBatch = NoBatch
    /\ PersonalityAtStart
    /\ SearchAtStart
    /\ topicsUnique = FALSE
    /\ TopicsAtStart
    /\ AmbientAtStart
    /\ SchedulerAtStart

NextSettle ==
    \/ IngestMessage(FALSE, SettleDeliveries)
    \/ InitialRunFires
    \/ TimerFires
    \/ EmbeddingResolves

SpecSettle ==
    /\ InitSettle
    /\ [][NextSettle]_vars
    /\ WF_vars(TimerFires)
    /\ WF_vars(EmbeddingResolves)

\* the summarizer, against a database with or without the unique index the
\* upsert statement needs (migration 006 creates the table without it)
InitTopics ==
    /\ SERVER_MEMORY_ENABLED = TRUE
    /\ embeddingAvailable = TRUE
    /\ EMBEDDING_BATCH_SIZE = BatchSize
    /\ faultBudget = MaxFaults
    /\ QueueAtStart
    /\ PersonalityAtStart
    /\ SearchAtStart
    /\ topicsUnique \in BOOLEAN
    /\ TopicsAtStart
    /\ AmbientAtStart
    /\ SchedulerAtStart

NextTopics ==
    \/ BeginPass
    \/ SummaryResolves
    \/ TriggerSummary
    \/ TopicDayPasses

SpecTopics == InitTopics /\ [][NextTopics]_vars

\* the scheduler of the summaries, started and stopped, and its passes
NextScheduler ==
    \/ StartScheduler
    \/ StopScheduler
    \/ TimeoutFires
    \/ IntervalFires
    \/ SummaryResolves

SpecScheduler == InitTopics /\ [][NextScheduler]_vars

\* ingestion alone, with the value each call returns on record
NextIngest == IngestMessage(TRUE, Deliveries)

SpecIngest == InitQueue /\ [][NextIngest]_vars

InitRel ==
    /\ SERVER_MEMORY_ENABLED = TRUE
    /\ embeddingAvailable = TRUE
    /\ EMBEDDING_BATCH_SIZE = BatchSize
    /\ faultBudget = MaxFaults
    /\ QueueAtStart
    /\ PersonalityAtStart
    /\ SearchAtStart
    /\ topicsUnique = FALSE
    /\ TopicsAtStart
    /\ AmbientAtStart
    /\ SchedulerAtStart

NextRel ==
    \/ BeginInteraction
    \/ MoodResolves
    \/ RelationshipResolves
    \/ UpdateRelationship

SpecRel == InitRel /\ [][NextRel]_vars

\* calls of processInteraction for one user that overlap
NextOverlap ==
    \/ BeginOverlapping
    \/ MoodEvaluatorFails
    \/ RelationshipResolvesOverlapped
    \/ GetRelationship

SpecOverlap == InitRel /\ [][NextOverlap]_vars

\* the messages of a guild and the ambient context read from them
NextAmbient ==
    \/ MessageNoticed
    \/ GetAmbientContext

SpecAmbient == InitRel /\ [][NextAmbient]_vars

\* setMood, evolveTrait and processInteraction given names that are neither
\* moods nor traits
NextCatalog ==
    \/ SetNamedMood
    \/ EvolveNamedTrait
    \/ BeginInteraction
    \/ NamedMoodResolves
    \/ RelationshipEvaluatorFails

SpecCatalog == InitRel /\ [][NextCatalog]_vars

\* processInteraction on the messages of the five patterns with both
\* evaluators offline
NextPatterns ==
    \/ BeginPatternInteraction
    \/ MoodEvaluatorFails
    \/ RelationshipEvaluatorFails

SpecPatterns == InitRel /\ [][NextPatterns]_vars

\* the traits as initializePersonality() stores them
DefaultTraits == [t \in DOMAIN PersonalityDimensions |-> PersonalityDimensions[t].base]

\* stored traits that evolveTrait can have led to: one trait at a limit
StoredTraits ==
    {DefaultTraits} \cup
    UNION {{[DefaultTraits EXCEPT ![t] = PersonalityDimensions[t].min],
            [DefaultTraits EXCEPT ![t] = PersonalityDimensions[t].max]} :
           t \in DOMAIN PersonalityDimensions}

\* getPersonalityState over every mood and stored traits within their ranges
InitEffective ==
    /\ SERVER_MEMORY_ENABLED = TRUE
    /\ embeddingAvailable = TRUE
    /\ EMBEDDING_BATCH_SIZE = BatchSize
    /\ faultBudget = MaxFaults
    /\ QueueAtStart
    /\ user_relationships = [u \in Users |-> NoRow]
    /\ relationshipCache = [u \in Users |-> NoRow]
    /\ \E traits \in StoredTraits :
          personality_state = [current_mood |-> "neutral", traits |-> traits,
                               inherited |-> {}, evolution |-> <<>>]
    /\ interactions = <<>>
    /\ lastInteraction = [kind |-> "none"]
    /\ now = 0
    /\ mood_started_at = 0
    /\ personalityCache = NoCache
    /\ lastCacheUpdate = 0
    /\ evolveCalls = [clamped |-> 0, unclamped |-> 0]
    /\ lastRead = [kind |-> "none"]
    /\ SearchAtStart
    /\ topicsUnique = FALSE
    /\ TopicsAtStart
    /\ AmbientAtStart
    /\ SchedulerAtStart

NextEffective ==
    \/ SetAnyMood
    \/ GetPersonalityState

SpecEffective == InitEffective /\ [][NextEffective]_vars

\* the two vector caches and the three searches over them
InitSearch ==
    /\ SERVER_MEMORY_ENABLED = TRUE
    /\ embeddingAvailable \in BOOLEAN
    /\ EMBEDDING_BATCH_SIZE = BatchSize
    /\ faultBudget = MaxFaults
    /\ QueueAtStart
    /\ PersonalityAtStart
    /\ SearchAtStart
    /\ topicsUnique = FALSE
    /\ TopicsAtStart
    /\ AmbientAtStart
    /\ SchedulerAtStart

NextSearch ==
    \/ StoreMemory
    \/ VectorStored
    \/ TtlElapses
    \/ SearchMemories
    \/ SearchServerMemories
    \/ ServerSearchResolves
    \/ FindSimilar

SpecSearch == InitSearch /\ [][NextSearch]_vars

\* the searches of several users and guilds over the two caches, with the
\* time that passes after a write
NextGuilds ==
    \/ StoreMemory
    \/ VectorStoredAnyGuild
    \/ TtlElapses
    \/ WriteAges
    \/ SearchMemories
    \/ SearchAnyGuild
    \/ ServerSearchResolves

SpecGuilds == InitSearch /\ [][NextGuilds]_vars

\* the searches of two users over the one cache of memory.js
NextOwners ==
    \/ StoreOwnedMemory
    \/ TtlElapses
    \/ SearchOwnedMemories

SpecOwners == InitSearch /\ [][NextOwners]_vars

\* the personality state, its moods and its cache over time
NextPersonality ==
    \/ TimePasses
    \/ GetPersonalityState
    \/ SetMood
    \/ EvolveTrait

SpecPersonality == InitRel /\ [][NextPersonality]_vars

\* ------------------------------------------------------- embedding queue: properties
QueueTables == <<embedding_queue, server_messages, server_embeddings>>

BatchTrigger == TimerFires \/ InitialRunFires \/ ProcessNow

InFlightIds(batches) ==
    UNION {{batches[n][k].id : k \in DOMAIN batches[n]} : n \in DOMAIN batches}

\* C1: at most one embedding batch is in flight at any time, no queue item is
\* held by two batches at once, and a processBatch call made while another is
\* awaiting its embedding leaves the queue, the messages and the vectors as
\* they were and starts no batch of its own.
C1_OneBatchInFlight ==
    /\ [](/\ Len(inflight) <= 1
          /\ (inflight # <<>> => isProcessing)
          /\ \A a, b \in DOMAIN inflight :
                a # b => InFlightIds(<<inflight[a]>>) \cap InFlightIds(<<inflight[b]>>) = {})
    /\ [][(BatchTrigger /\ isProcessing) =>
            (UNCHANGED QueueTables /\ UNCHANGED <<inflight, isProcessing>>)]_vars

\* a trigger arrived while a batch was awaiting its embedding and was dropped
C1_TriggerDroppedWhileBusy ==
    /\ droppedTrigger
    /\ isProcessing
    /\ Len(inflight) = 1
    /\ \E i \in DOMAIN embedding_queue : embedding_queue[i].status = "pending"

MessageOf(item) == server_messages[item.message_id]

C3_TerminalAbsorbing ==
    /\ [][\A i \in DOMAIN embedding_queue :
            embedding_queue[i].status \in Terminal =>
              /\ \A j \in DOMAIN embedding_queue' :
                    embedding_queue'[j].id = embedding_queue[i].id =>
                        embedding_queue'[j].status = embedding_queue[i].status
              /\ embedding_queue[i].id \notin InFlightIds(inflight')]_vars
    /\ [](\A i \in DOMAIN embedding_queue :
            embedding_queue[i].id \in InFlightIds(inflight) =>
                embedding_queue[i].status = "pending")

\* a failed item outlived the day after it failed while the processor ran on
C3_TerminalItemAged ==
    \E i \in DOMAIN embedding_queue :
        /\ embedding_queue[i].status \in Terminal
        /\ embedding_queue[i].processed_at = "old"
        /\ processorInterval
        /\ pendingTimeouts = 0
        /\ embeddingAvailable

HasVector(mid) == \E v \in DOMAIN server_embeddings : server_embeddings[v].message_id = mid

\* C4: a message has embedding status 'embedded' exactly when a vector record
\* exists for it.
C4_EmbeddedIffVector ==
    \A mid \in DOMAIN server_messages :
        (server_messages[mid].embedding_status = "embedded") <=> HasVector(mid)

\* C5: no two message rows share an external id, and a delivery to
\* ingestMessage leaves every row that already exists as it was (content,
\* importance score and embedding status included).
C5_IngestIdempotent ==
    /\ [](\A i, j \in DOMAIN server_messages :
            server_messages[i].message_id = server_messages[j].message_id => i = j)
    /\ [][\/ \A i \in DOMAIN server_messages :
                /\ i \in DOMAIN server_messages'
                /\ server_messages'[i] = server_messages[i]
          \/ ~IngestMessage(FALSE, QueueDeliveries)]_vars

\* two accepted deliveries of one external id, one row, already embedded
C5_DuplicateDelivered ==
    /\ channel_metadata = 2
    /\ Len(server_messages) = 1
    /\ server_messages[1].embedding_status = "embedded"

\* C7: stopProcessor and startProcessor change no queue item, message or
\* vector, and do not touch a batch in flight or the processing flag: what is
\* pending before the call is what the next batch selects after it.
C7_StopStartFrame ==
    [][(StopProcessor \/ StartProcessor) =>
        /\ UNCHANGED QueueTables
        /\ UNCHANGED <<inflight, isProcessing>>
        /\ getPendingQueue(embedding_queue', BatchSize)
              = getPendingQueue(embedding_queue, BatchSize)]_vars

\* the processor is stopped while a batch is in flight and an item is pending
C7_StoppedMidBatch ==
    /\ ~processorInterval
    /\ isProcessing
    /\ inflight # <<>>
    /\ \E i \in DOMAIN embedding_queue : embedding_queue[i].status = "pending"

\* ------------------------------------------------------- ingestion: properties
StorageStmts == IngestStmts \ {"updateChannelMetadata"}

\* C6 as first stated: ingestMessage never throws, and a call in which any
\* storage statement failed returns a skipped result with a reason.
C6_AnyFaultGivesSkipped ==
    /\ ingestResult.returned.kind # "threw"
    /\ ingestResult.threw # {} =>
          /\ ingestResult.returned.kind = "skipped"
          /\ ingestResult.returned.reason # Null

\* C6: ingestMessage never throws; a call in which opening the database,
\* insertMessage, getMessageById or queueForEmbedding failed returns a skipped
\* result with a reason; a call in which only updateChannelMetadata failed
\* returns success.
C6_NeverThrows ==
    /\ ingestResult.returned.kind # "threw"
    /\ ingestResult.threw \cap StorageStmts # {} =>
          /\ ingestResult.returned.kind = "skipped"
          /\ ingestResult.returned.reason \in {"error", "db_not_ready"}
    /\ ingestResult.threw = {"updateChannelMetadata"} =>
          ingestResult.returned.kind = "success"

\* queueForEmbedding threw after the message row was inserted
C6_QueueStatementFailed ==
    /\ "queueForEmbedding" \in ingestResult.threw
    /\ ingestResult.returned = Skipped("error")
    /\ Len(server_messages) = 1

\* ------------------------------------------------------- relationships: properties
FallbackInteraction ==
    /\ lastInteraction.kind = "processInteraction"
    /\ ~lastInteraction.usedLLM
    /\ ~lastInteraction.llmRelEval

LlmInteraction ==
    /\ lastInteraction.kind = "processInteraction"
    /\ lastInteraction.llmRelEval

Change(field) == lastInteraction.after[field] - lastInteraction.before[field]

\* C8 as first stated: when both evaluators returned null, the interaction
\* completes, the interaction count rises by 1, and the numbers change by the
\* fallback deltas: familiarity +0.01, trust +0.02 or +0.002, affection
\* +0.005, -0.002 or 0, rivalry not at all.
C8_FallbackDeltasAsChange ==
    FallbackInteraction =>
        /\ Change("interaction_count") = 1
        /\ Change("familiarity") = 10
        /\ Change("trust") \in {2, 20}
        /\ Change("affection") \in {5, -2, 0}
        /\ Change("rivalry") = 0

\* C8: when both evaluators returned null, the interaction completes, the
\* interaction count rises by 1, and each number is moved by its fallback
\* delta (familiarity +0.01, trust +0.02 or +0.002, affection +0.005, -0.002
\* or 0, rivalry 0) and then clamped to [0,1].
C8_FallbackDeltasClamped ==
    FallbackInteraction =>
        LET before == lastInteraction.before
            after == lastInteraction.after
        IN /\ after.interaction_count = before.interaction_count + 1
           /\ after.familiarity = MathMin(before.familiarity + 10, 1000)
           /\ after.trust \in {MathMin(before.trust + d, 1000) : d \in {2, 20}}
           /\ after.affection
                 \in {MathMax(0, MathMin(before.affection + d, 1000)) : d \in {5, -2, 0}}
           /\ after.rivalry = before.rivalry

\* a fallback interaction on a message that shows vulnerability has completed
C8_FallbackApplied ==
    /\ FallbackInteraction
    /\ Change("interaction_count") = 1
    /\ Change("familiarity") = 10
    /\ Change("trust") = 20

\* C9 as first stated: when the relationship evaluator's result is used, the
\* change of affection is within +-0.05, of trust within +-0.03, of
\* familiarity within [+0.005, +0.02] and of rivalry within +-0.02.
C9_ChangeWithinSafetyBounds ==
    LlmInteraction =>
        /\ Change("affection") \in -50..50
        /\ Change("trust") \in -30..30
        /\ Change("familiarity") \in 5..20
        /\ Change("rivalry") \in -20..20

\* C9: when the relationship evaluator's result is used, the change of
\* affection is within +-0.05, of trust within +-0.03, of rivalry within
\* +-0.02 and of familiarity within [0, +0.02]; familiarity rises by at least
\* +0.005, or up to 1.0 if that is nearer, when the evaluator's familiarity
\* delta is a number or absent, and not at all when it is anything else.
C9_ChangeWithinClampedBounds ==
    LlmInteraction =>
        /\ Change("affection") \in -50..50
        /\ Change("trust") \in -30..30
        /\ Change("rivalry") \in -20..20
        /\ Change("familiarity") \in 0..20
        /\ IF lastInteraction.relUpdates.familiarity.kind = "number"
           THEN Change("familiarity") >= MathMin(5, 1000 - lastInteraction.before.familiarity)
           ELSE Change("familiarity") = 0

\* the evaluator asked for +1.0 everywhere and each number moved by its bound
C9_LargeDeltasClamped ==
    /\ LlmInteraction
    /\ Change("affection") = 50
    /\ Change("trust") = 30
    /\ Change("familiarity") = 20
    /\ Change("rivalry") = 20

RelationshipNumbers == {"affection", "trust", "familiarity", "rivalry"}

\* C10: every stored relationship has affection, trust, familiarity and
\* rivalry in [0,1], and an updateRelationship call with deltas of +1.0
\* leaves each of them at exactly 1.0, the first time and every time after.
C10_NumbersStayInUnitInterval ==
    /\ \A u \in Users : \A f \in RelationshipNumbers :
          user_relationships[u].exists => user_relationships[u][f] \in 0..1000
    /\ lastInteraction.kind \in {"updateRelationship", "processInteraction"} =>
          \A f \in RelationshipNumbers : lastInteraction.after[f] \in 0..1000
    /\ (/\ lastInteraction.kind = "updateRelationship"
        /\ \A f \in RelationshipNumbers : lastInteraction.relUpdates[f] = Number(1000)) =>
          \A f \in RelationshipNumbers : lastInteraction.after[f] = 1000

\* a second +1.0 update found every number at 1.0 and left it there
C10_SaturatedTwice ==
    /\ lastInteraction.kind = "updateRelationship"
    /\ \A f \in RelationshipNumbers :
          /\ lastInteraction.relUpdates[f] = Number(1000)
          /\ lastInteraction.before[f] = 1000
          /\ lastInteraction.after[f] = 1000

\* ------------------------------------------------ personality: properties
TraitsInRange ==
    \A t \in DOMAIN PersonalityDimensions :
        /\ personality_state.traits[t] >= PersonalityDimensions[t].min
        /\ personality_state.traits[t] <= PersonalityDimensions[t].max

C12_ExpiredMoodReadsNeutral ==
    (lastRead.kind = "read" /\ lastRead.stored # "neutral" /\ lastRead.elapsed)
        => lastRead.currentMood = "neutral"

\* the threshold table of the relationship stages, in thousandths
StageOf(familiarity) ==
    IF familiarity < 200 THEN "stranger"
    ELSE IF familiarity < 400 THEN "acquaintance"
    ELSE IF familiarity < 600 THEN "regular"
    ELSE IF familiarity < 800 THEN "friend"
    ELSE IF familiarity < 950 THEN "closeFriend"
    ELSE "family"

\* C13: the stage getRelationship returns, the stage stored with the row and
\* the stage updateRelationship computed all equal the threshold table's
\* stage of the current familiarity, whatever the other three numbers are.
C13_StageFollowsFamiliarity ==
    /\ \A f \in {0, 199, 200, 399, 400, 599, 600, 799, 800, 949, 950, 1000} :
          determineRelationshipStage(f) = StageOf(f)
    /\ \A u \in Users :
          LET rel == getRelationship(user_relationships, u)
          IN  /\ rel.stage = StageOf(rel.familiarity)
              /\ rel.relationship_stage = rel.stage
    /\ lastInteraction.kind # "none" =>
          lastInteraction.after.relationship_stage = StageOf(lastInteraction.after.familiarity)

\* a user at the top stage whose affection and trust have since dropped
C13_FamilyWithLowerAffection ==
    \E u \in Users :
        LET rel == getRelationship(user_relationships, u)
        IN  /\ rel.stage = "family"
            /\ rel.affection < 1000
            /\ lastInteraction.kind = "processInteraction"

\* ------------------------------------------------ semantic search: properties
Range(s) == {s[i] : i \in DOMAIN s}

\* r lists, best first, the first `limit` members of S under the strict order Precedes
IsTopOf(r, S, limit, Precedes(_, _)) ==
    /\ Len(r) = MathMin(limit, Cardinality(S))
    /\ \A i \in DOMAIN r : r[i] \in S
    /\ \A i, j \in DOMAIN r : i < j => Precedes(r[i], r[j])
    /\ \A c \in S \ Range(r) : \A i \in DOMAIN r : Precedes(r[i], c)

\* the cache a completed search ran over, as entries [id, scope, similarity]
\* in insertion order
SearchedCache ==
    IF lastSearch.fn = "searchMemories"
    THEN [i \in 1..Len(embeddingCache) |->
             [id |-> embeddingCache[i].memoryId, scope |-> embeddingCache[i].userId,
              similarity |-> embeddingCache[i].similarity]]
    ELSE [i \in 1..Len(serverEmbeddingCache) |->
             [id |-> serverEmbeddingCache[i].id,
              scope |-> IF lastSearch.fn = "findSimilar" THEN Null
                        ELSE serverEmbeddingCache[i].channel_id,
              similarity |-> serverEmbeddingCache[i].similarity]]

\* positions of the cached entries that the search's scope admits and whose
\* similarity is at or above t
Passing(t) ==
    {i \in 1..Len(SearchedCache) :
        /\ SearchedCache[i].similarity >= t
        /\ \/ lastSearch.scope = Null
           \/ SearchedCache[i].scope = lastSearch.scope
           \/ lastSearch.fn = "searchMemories" /\ SearchedCache[i].scope = Null}

PositionOf(id) == CHOOSE i \in 1..Len(SearchedCache) : SearchedCache[i].id = id

IdSet(s, field) == {s[i][field] : i \in 1..Len(s)}

\* C14: over the same cache, with the same scope and limit, what a search
\* returns at the higher threshold is among what it returns at the lower one.
C14_HigherThresholdSubset ==
    \A limit \in Limits : \A lo \in Thresholds : \A hi \in Thresholds :
        lo <= hi =>
          /\ IdSet(findSimilar(serverEmbeddingCache, limit, hi), "id")
                \subseteq IdSet(findSimilar(serverEmbeddingCache, limit, lo), "id")
          /\ \A userId \in {Null, "u1"} :
                IdSet(rankMemories(embeddingCache, userId, limit, hi), "memoryId")
                   \subseteq IdSet(rankMemories(embeddingCache, userId, limit, lo), "memoryId")
          /\ \A channelId \in {Null, "c1"} :
                IdSet(rankServerMemories(serverEmbeddingCache, channelId, limit, hi), "id")
                   \subseteq IdSet(rankServerMemories(serverEmbeddingCache, channelId, limit, lo), "id")

\* a search at 0.9 returned something, and less than the same search at 0.3 would
C14_ProperSubsetReturned ==
    /\ lastSearch.fn = "searchMemories"
    /\ lastSearch.outcome = "ranked"
    /\ lastSearch.threshold = 90
    /\ lastSearch.results # <<>>
    /\ Range(lastSearch.results) #
          IdSet(rankMemories(embeddingCache, lastSearch.scope, lastSearch.limit, 30),
                "memoryId")

\* C15: a search that ran to its end returns the first `limit` of the cached
\* candidates at or above the threshold, by descending similarity, equal
\* similarities in cache insertion order; nothing below the threshold is
\* returned, however few candidates pass.
C15_ThresholdThenTopK ==
    (lastSearch.fn # "none" /\ lastSearch.outcome = "ranked") =>
        IsTopOf([i \in 1..Len(lastSearch.results) |-> PositionOf(lastSearch.results[i])],
                Passing(lastSearch.threshold), lastSearch.limit,
                LAMBDA a, b :
                    \/ SearchedCache[a].similarity > SearchedCache[b].similarity
                    \/ /\ SearchedCache[a].similarity = SearchedCache[b].similarity
                       /\ a < b)

\* two cached messages tie at the threshold and the limit of one keeps the
\* one inserted first
C15_TieCutByInsertionOrder ==
    /\ lastSearch.fn = "searchServerMemories"
    /\ lastSearch.outcome = "ranked"
    /\ lastSearch.limit = 1
    /\ Len(lastSearch.results) = 1
    /\ \E i \in Passing(lastSearch.threshold), j \in Passing(lastSearch.threshold) :
          /\ i < j
          /\ SearchedCache[i].similarity = SearchedCache[j].similarity
          /\ SearchedCache[i].id = lastSearch.results[1]

\* the stored memories getRecentMemoriesForContext is to return for a search
StoredFor(userId) ==
    {i \in 1..Len(semantic_memories) : userId = Null \/ semantic_memories[i].user_id = userId}

\* C16: searchMemories never throws; without a query embedding (service not
\* configured, or the call failed) and with the storage working it returns
\* the stored memories, the most important first for a user and the most
\* recent first otherwise; whenever a statement throws it returns the empty list.
C16_SearchDegrades ==
    lastSearch.fn = "searchMemories" =>
        /\ lastSearch.outcome \in {"ranked", "fallback", "error"}
        /\ (~lastSearch.embedded /\ lastSearch.threw = {}) =>
              /\ lastSearch.outcome = "fallback"
              /\ IsTopOf(lastSearch.results, StoredFor(lastSearch.scope), lastSearch.limit,
                         LAMBDA a, b :
                             IF lastSearch.scope = Null THEN a > b
                             ELSE \/ semantic_memories[a].importance
                                       > semantic_memories[b].importance
                                  \/ /\ semantic_memories[a].importance
                                          = semantic_memories[b].importance
                                     /\ a > b)
        /\ lastSearch.threw # {} => lastSearch.results = <<>>

\* no embedding service is configured and the search returned two stored memories
C16_FellBackToStored ==
    /\ ~embeddingAvailable
    /\ lastSearch.fn = "searchMemories"
    /\ lastSearch.outcome = "fallback"
    /\ Len(lastSearch.results) = 2

\* C17: a call of ingestMessage that stores a new message adds a queue item
\* exactly when the importance score is at or above the threshold; the item
\* is pending, untried, refers to the new row and has the score in hundredths
\* as its priority; the stored message is 'pending' exactly when the item was
\* added and 'skipped' otherwise; the older queue items are left as they were.
C17_QueuedIffImportant ==
    [][ Len(server_messages') = Len(server_messages) + 1 =>
        LET row == server_messages'[Len(server_messages')]
            queued == Len(embedding_queue') = Len(embedding_queue) + 1
        IN  /\ Len(embedding_queue') \in {Len(embedding_queue), Len(embedding_queue) + 1}
            /\ SubSeq(embedding_queue', 1, Len(embedding_queue)) = embedding_queue
            /\ queued <=> row.importance_score >= IMPORTANCE_THRESHOLD
            /\ queued =>
                 LET item == embedding_queue'[Len(embedding_queue')]
                 IN  /\ item.status = "pending"
                     /\ item.priority = row.importance_score
                     /\ item.message_id = Len(server_messages')
                     /\ item.retry_count = 0
            /\ row.embedding_status = IF queued THEN "pending" ELSE "skipped"
      ]_vars

\* C18: no message has more than one row in server_embeddings.
C18_AtMostOneVector ==
    \A i, j \in DOMAIN server_embeddings :
        server_embeddings[i].message_id = server_embeddings[j].message_id => i = j

\* the rows of server_embeddings that belong to a message
VectorsOf(e, mid) == {i \in DOMAIN e : e[i].message_id = mid}

\* the queue row with an id
ItemWithId(q, id) == q[CHOOSE i \in DOMAIN q : q[i].id = id]

\* C19: when a batch finishes whose embedding call succeeded and in which
\* exactly one storage statement threw, the item that statement belonged to
\* and its message are marked failed, and every other item of the batch has
\* got its vector, is completed and its message is embedded.
C19_OnlyThatItemFails ==
    [][ ( /\ lastBatch' # lastBatch
          /\ lastBatch'.success
          /\ Cardinality(lastBatch'.threw) = 1 ) =>
        \A k \in DOMAIN lastBatch'.items :
            LET before == ItemWithId(embedding_queue, lastBatch'.items[k])
                after == ItemWithId(embedding_queue', lastBatch'.items[k])
                mid == after.message_id
                vectors == Cardinality(VectorsOf(server_embeddings', mid))
                            - Cardinality(VectorsOf(server_embeddings, mid))
            IN  /\ before.status = "pending"
                /\ IF \E f \in lastBatch'.threw : f[1] = k
                   THEN /\ after.status = "failed"
                        /\ server_messages'[mid].embedding_status = "failed"
                   ELSE /\ after.status = "completed"
                        /\ server_messages'[mid].embedding_status = "embedded"
                        /\ vectors = 1
      ]_vars

\* a batch of two has finished in which storing the first item failed: the
\* first item is failed, the second is completed and has the only vector
C19_SecondItemStored ==
    /\ lastBatch.success
    /\ Len(lastBatch.items) = 2
    /\ lastBatch.threw = {<<1, "storeEmbedding">>}
    /\ ItemWithId(embedding_queue, lastBatch.items[1]).status = "failed"
    /\ ItemWithId(embedding_queue, lastBatch.items[2]).status = "completed"
    /\ Len(server_embeddings) = 1
    /\ server_embeddings[1].message_id
          = ItemWithId(embedding_queue, lastBatch.items[2]).message_id

\* ------------------------------------------------------- summarizer: properties
\* C20: a topic's status changes only forward, one stage at a time, and by
\* the statement of that stage: active to cooling by coolDownTopics, cooling
\* to dormant by archiveTopics; a step that makes a cooling or dormant topic
\* active has upserted it, and an upserted topic is active after the step;
\* no row is removed.
C20_StatusMovesForward ==
    \A k \in TopicKeys :
        LET from == lastTopicStep.from[k]
            to == active_topics[k].status
            upserted == <<"upsertTopic", k>> \in lastTopicStep.ops
        IN  /\ from # "none" => to # "none"
            /\ upserted => to = "active"
            /\ from # to =>
                 \/ to = "active" /\ upserted
                 \/ /\ from = "active" /\ to = "cooling" /\ ~upserted
                    /\ <<"coolDownTopics", k[1]>> \in lastTopicStep.ops
                 \/ /\ from = "cooling" /\ to = "dormant" /\ ~upserted
                    /\ <<"archiveTopics", k[1]>> \in lastTopicStep.ops

\* a topic that had gone dormant was mentioned again and is active
C20_DormantTopicRevived ==
    \E k \in TopicKeys :
        /\ lastTopicStep.from[k] = "dormant"
        /\ active_topics[k].status = "active"
        /\ active_topics[k].mention_count = 2
        /\ active_topics[k].last_seen_at = today

\* C21: a search of the server memories called with a guild returns only
\* messages of that guild.
C21_ResultsOfSearchedGuild ==
    (lastSearch.fn = "searchServerMemories" /\ lastSearch.outcome = "ranked") =>
        \A id \in Range(lastSearch.results) :
            guild_vectors[id].guild_id = lastSearch.guildId

\* a step that writes a memory or a vector to durable storage
MemoryWritten == semantic_memories' # semantic_memories
VectorWritten == guild_vectors' # guild_vectors

\* C22 as first stated: no write changes the contents of a cache or the age
\* its owner sees, and the contents of a cache change only in a search that
\* found the TTL elapsed.
C22_WritesLeaveCaches ==
    [][ /\ (MemoryWritten \/ VectorWritten) =>
              UNCHANGED <<embeddingCache, cacheExpired, serverEmbeddingCache,
                          serverCacheExpired>>
        /\ embeddingCache' # embeddingCache =>
              cacheExpired /\ lastSearch'.fn = "searchMemories"
        /\ serverEmbeddingCache' # serverEmbeddingCache =>
              serverCacheExpired /\ Len(searches') = Len(searches) + 1
      ]_vars

\* C22 as amended: no write changes the contents of a cache, and storing a
\* vector of a server message leaves the server cache's age alone, but
\* storeMemory resets cacheLastUpdated, so that after it the memory cache
\* counts as expired; the contents of a cache change only in a search that
\* found it expired, and a cache stops being expired only in such a search.
C22_StoreMemoryInvalidates ==
    [][ /\ (MemoryWritten \/ VectorWritten) =>
              UNCHANGED <<embeddingCache, serverEmbeddingCache, serverCacheExpired>>
        /\ MemoryWritten => cacheExpired'
        /\ VectorWritten => UNCHANGED cacheExpired
        /\ (embeddingCache' # embeddingCache \/ (cacheExpired /\ ~cacheExpired')) =>
              cacheExpired /\ lastSearch'.fn = "searchMemories"
        /\ (serverEmbeddingCache' # serverEmbeddingCache
               \/ (serverCacheExpired /\ ~serverCacheExpired')) =>
              serverCacheExpired /\ Len(searches') = Len(searches) + 1
      ]_vars

\* a memory was stored after the cache was filled: the cache still holds the
\* one older row and counts as expired
C22_StoredAfterCacheFilled ==
    /\ Len(semantic_memories) = 2
    /\ semantic_memories[2].embedded
    /\ Len(embeddingCache) = 1
    /\ embeddingCache[1].memoryId = 1
    /\ cacheExpired
    /\ lastSearch = NoSearch

\* C23: a vector written more than five minutes before a search for its guild
\* or user starts is among the candidates of that search, whatever searches
\* ran in between (no statement of the search throwing).
C23_AgedWritesAreCandidates ==
    [][ /\ ( /\ Len(searches') = Len(searches) + 1
             /\ searches'[Len(searches')].threw = {}
             /\ vectorAged ) =>
              \A i \in DOMAIN guild_vectors :
                  guild_vectors[i].guild_id = searches'[Len(searches')].scope =>
                      i \in Range(Ids(serverEmbeddingCache', "id"))
        /\ ( /\ lastSearch'.fn = "searchMemories"
             /\ lastSearch'.embedded
             /\ lastSearch'.threw = {}
             /\ lastSearch'.scope # Null
             /\ memoryAged ) =>
              \A i \in DOMAIN semantic_memories :
                  (semantic_memories[i].embedded
                      /\ semantic_memories[i].user_id = lastSearch'.scope) =>
                      i \in Range(Ids(embeddingCache', "memoryId"))
      ]_vars

\* every stored trait is within the range of its dimension
BaseTraitsInRange(traits) ==
    \A t \in DOMAIN traits :
        /\ traits[t] >= PersonalityDimensions[t].min
        /\ traits[t] <= PersonalityDimensions[t].max

\* C24 as first stated: with every stored trait in its range, every
\* effective trait that getPersonalityState returns is within the [min, max]
\* of its dimension, whatever the mood.
C24_EffectiveWithinTraitRange ==
    (personalityCache.kind = "state" /\ BaseTraitsInRange(personalityCache.baseTraits)) =>
        \A t \in DOMAIN personalityCache.effectiveTraits :
            /\ personalityCache.effectiveTraits[t] >= PersonalityDimensions[t].min
            /\ personalityCache.effectiveTraits[t] <= PersonalityDimensions[t].max

\* C24 as amended: with every stored trait in its range, every effective
\* trait that getPersonalityState returns is within [0, 1], whatever the mood.
C24_EffectiveWithinUnitInterval ==
    (personalityCache.kind = "state" /\ BaseTraitsInRange(personalityCache.baseTraits)) =>
        \A t \in DOMAIN personalityCache.effectiveTraits :
            /\ personalityCache.effectiveTraits[t] >= 0
            /\ personalityCache.effectiveTraits[t] <= 1000

\* protectiveness stored at its maximum 0.95 and the mood protective (+0.25):
\* the effective value is cut at 1
C24_ProtectiveCutAtOne ==
    /\ personalityCache.kind = "state"
    /\ personalityCache.currentMood = "protective"
    /\ personalityCache.baseTraits.protectiveness = 950
    /\ personalityCache.effectiveTraits.protectiveness = 1000

\* C25: evolveFromPatterns runs in a processInteraction exactly when that
\* interaction is the user's 20th, 40th, 60th, ...: when the interaction count
\* it leaves behind is a multiple of 20.
C25_EvolvesOnEveryTwentieth ==
    lastInteraction.kind = "processInteraction" =>
        (lastInteraction.evolved <=> lastInteraction.after.interaction_count % 20 = 0)

\* the queue item with an id has a status
ItemHasStatus(id, statuses) ==
    \E k \in DOMAIN embedding_queue :
        embedding_queue[k].id = id /\ embedding_queue[k].status \in statuses

\* C26: with the processor's timer running and every embedding call
\* returning, each pending queue item eventually becomes completed or failed.
C26_PendingEventuallySettled ==
    \A id \in 1..MaxIngest :
        (processorInterval /\ ItemHasStatus(id, {"pending"}))
            ~> ItemHasStatus(id, Terminal)

\* the queue holds a completed item and one that failed after its retries,
\* with the processor's timer running
C26_OneCompletedOneRetriedOut ==
    /\ processorInterval
    /\ \E k \in DOMAIN embedding_queue :
           embedding_queue[k].status = "completed"
    /\ \E k \in DOMAIN embedding_queue :
           embedding_queue[k].status = "failed" /\ embedding_queue[k].retry_count = 3

\* a step of processInteraction that ends at `await evaluateMood(...)`
SuspendsAtMoodCall == Len(interactions') = Len(interactions) + 1

\* a step of processInteraction that ends at `await evaluateRelationship(...)`
SuspendsAtRelationshipCall ==
    Len(interactions') = Len(interactions) /\ interactions' # interactions

\* C27 as first stated: the steps of processInteraction that end with one of
\* its evaluator calls unresolved write neither mood, nor trait, nor
\* relationship.
C27_NoWriteBeforeCallsResolve ==
    [][(SuspendsAtMoodCall \/ SuspendsAtRelationshipCall) =>
          UNCHANGED <<personality_state, user_relationships>>]_vars

\* C27 as amended: no relationship is written while an evaluator call of the
\* interaction is unresolved; up to the call of the mood evaluator no trait is
\* written and the mood is written only by the decay to neutral of the first
\* read; the mood and traits of the mood step are written before the
\* relationship evaluator is called.
C27_RelationshipWrittenLast ==
    [][ /\ (SuspendsAtMoodCall \/ SuspendsAtRelationshipCall) =>
              UNCHANGED user_relationships
        /\ SuspendsAtMoodCall =>
              /\ personality_state'.traits = personality_state.traits
              /\ personality_state'.current_mood \in
                     {personality_state.current_mood, "neutral"}
      ]_vars

\* an interaction waits for the relationship evaluator: the mood step made
\* the mood annoyed and lowered patience, the user has no row yet
C27_MoodWrittenWhileCallPending ==
    /\ \E n \in DOMAIN interactions : interactions[n].pc = "evaluateRelationship"
    /\ personality_state.current_mood = "annoyed"
    /\ personality_state.traits.patience < PersonalityDimensions.patience.base
    /\ \A u \in Users : user_relationships[u] = NoRow

\* the moods the pattern rules of processInteraction can set for an analysis
PatternMoods(analysis) ==
    {mood \in Moods :
        \/ mood = "competitive" /\ analysis.isChallenge
        \/ mood = "annoyed" /\ analysis.isRude
        \/ mood = "flustered" /\ analysis.isCompliment
        \/ mood = "mischievous" /\ analysis.isPlayful
        \/ mood = "protective" /\ analysis.isVulnerable}

\* the analysis is the evaluator's and its confidence is above 0.6
ConfidentAnalysis(analysis) ==
    /\ analysis.usedLLM
    /\ analysis.moodConfidence.kind = "number"
    /\ analysis.moodConfidence.v > 600

\* the analysis the mood step of this step has worked on
StepAnalysis ==
    interactions'[CHOOSE n \in DOMAIN interactions : interactions'[n] # interactions[n]].analysis

\* C28: when the mood evaluator returned null or a confidence at or below
\* 0.6, the mood step leaves the mood as it is or sets the mood of one of the
\* patterns found: the suggested mood is adopted only above 0.6.
C28_SuggestedMoodNeedsConfidence ==
    [][(SuspendsAtRelationshipCall /\ ~ConfidentAnalysis(StepAnalysis)) =>
          personality_state'.current_mood \in
              {personality_state.current_mood} \cup PatternMoods(StepAnalysis)]_vars

\* the evaluator suggested soft with confidence 0.6 for a rude message: the
\* mood is annoyed
C28_SuggestionAtThresholdIgnored ==
    /\ \E n \in DOMAIN interactions :
          /\ interactions[n].pc = "evaluateRelationship"
          /\ interactions[n].analysis.usedLLM
          /\ interactions[n].analysis.suggestedMood = "soft"
          /\ interactions[n].analysis.moodConfidence = Number(600)
    /\ personality_state.current_mood = "annoyed"

\* C29 as first stated: without the mood evaluator, a message that matches
\* one of the five patterns sets the mood of a pattern it matches.
C29_PatternSetsMood ==
    [][(SuspendsAtRelationshipCall /\ ~StepAnalysis.usedLLM
           /\ PatternMoods(StepAnalysis) # {}) =>
          personality_state'.current_mood \in PatternMoods(StepAnalysis)]_vars

\* the trait after a nudge, within the range of its dimension
Nudged(trait, delta) ==
    clamp(personality_state.traits[trait] + delta, PersonalityDimensions[trait].min,
          PersonalityDimensions[trait].max)

\* the mood step set this mood and wrote these traits, and no other trait
MoodStepWrote(mood, traits) ==
    /\ personality_state'.current_mood = mood
    /\ \A t \in DOMAIN PersonalityDimensions :
          personality_state'.traits[t] =
              IF t \in DOMAIN traits THEN traits[t] ELSE personality_state.traits[t]

\* C29 as amended: without the mood evaluator, a message with sentiment
\* below -0.5 sets competitive (competitiveness +0.01) when it matches the
\* challenge pattern and otherwise annoyed (patience -0.005) when it matches
\* the rudeness pattern; a message with sentiment above 0.5 sets flustered
\* (tsundereLevel +0.005) for a compliment, otherwise mischievous
\* (playfulness +0.005) for playfulness, otherwise protective (protectiveness
\* +0.01, vulnerability +0.005) for vulnerability; every other message leaves
\* mood and traits as they are.
C29_PatternNeedsSentiment ==
    [][(SuspendsAtRelationshipCall /\ ~StepAnalysis.usedLLM) =>
          LET a == StepAnalysis
              negative == a.sentiment.v < -500
              positive == a.sentiment.v > 500
          IN  IF negative /\ a.isChallenge
              THEN MoodStepWrote("competitive",
                                 [competitiveness |-> Nudged("competitiveness", 10)])
              ELSE IF negative /\ a.isRude
              THEN MoodStepWrote("annoyed", [patience |-> Nudged("patience", -5)])
              ELSE IF positive /\ a.isCompliment
              THEN MoodStepWrote("flustered",
                                 [tsundereLevel |-> Nudged("tsundereLevel", 5)])
              ELSE IF positive /\ a.isPlayful
              THEN MoodStepWrote("mischievous", [playfulness |-> Nudged("playfulness", 5)])
              ELSE IF positive /\ a.isVulnerable
              THEN MoodStepWrote("protective",
                                 [protectiveness |-> Nudged("protectiveness", 10),
                                  vulnerability |-> Nudged("vulnerability", 5)])
              ELSE UNCHANGED personality_state]_vars

\* a message of the vulnerability pattern with sentiment 0.6 went through the
\* keyword analysis: the mood is protective and both traits were nudged
C29_ProtectiveAfterVulnerable ==
    /\ \E n \in DOMAIN interactions :
          /\ interactions[n].pc = "evaluateRelationship"
          /\ ~interactions[n].analysis.usedLLM
          /\ interactions[n].analysis.isVulnerable
          /\ interactions[n].analysis.sentiment = Number(600)
    /\ personality_state.current_mood = "protective"
    /\ personality_state.traits.protectiveness = PersonalityDimensions.protectiveness.base + 10
    /\ personality_state.traits.vulnerability = PersonalityDimensions.vulnerability.base + 5

\* a processInteraction call returns
Completes == Len(interactions') = Len(interactions) - 1

\* the call that returns in this step
CompletedCall ==
    interactions[CHOOSE n \in DOMAIN interactions :
                    interactions' = [i \in 1..(Len(interactions) - 1) |->
                                        IF i < n THEN interactions[i] ELSE interactions[i + 1]]]

\* the fallback moved the three numbers by these deltas, each then clamped to [0,1]
FallbackMoved(familiarity, trust, affection) ==
    LET before == lastInteraction'.before
        after == lastInteraction'.after
        relUpdates == lastInteraction'.relUpdates
    IN  /\ relUpdates.familiarity = Number(familiarity)
        /\ relUpdates.trust = Number(trust)
        /\ relUpdates.affection = Number(affection)
        /\ after.familiarity = clamp(before.familiarity + familiarity, 0, 1000)
        /\ after.trust = clamp(before.trust + trust, 0, 1000)
        /\ after.affection = clamp(before.affection + affection, 0, 1000)

Positive(x) == x.kind = "number" /\ x.v > 0

Negative(x) == x.kind = "number" /\ x.v < 0

\* C30 as first stated: without the relationship evaluator, familiarity moves
\* by +0.01, trust by +0.02 when vulnerability was detected and +0.002
\* otherwise, affection by +0.005 whenever the sentiment is positive and by
\* -0.002 whenever it is negative, each before clamping to [0,1].
C30_AffectionBySign ==
    [][(Completes /\ ~lastInteraction'.llmRelEval) =>
          LET analysis == CompletedCall.analysis
              trust == IF analysis.isVulnerable THEN 20 ELSE 2
          IN  /\ Positive(analysis.sentiment) => FallbackMoved(10, trust, 5)
              /\ Negative(analysis.sentiment) => FallbackMoved(10, trust, -2)]_vars

\* C30 as amended: without the relationship evaluator, familiarity moves by
\* +0.01, trust by +0.02 when vulnerability was detected and +0.002
\* otherwise, affection by +0.005 when the sentiment is above 0, by -0.002
\* when it is below -0.3 and not at all otherwise, each before clamping to
\* [0,1].
C30_AffectionBelowThreshold ==
    [][(Completes /\ ~lastInteraction'.llmRelEval) =>
          LET analysis == CompletedCall.analysis
              trust == IF analysis.isVulnerable THEN 20 ELSE 2
              affection == IF Positive(analysis.sentiment) THEN 5
                           ELSE IF Negative(analysis.sentiment) /\ analysis.sentiment.v < -300
                           THEN -2
                           ELSE 0
          IN  FallbackMoved(10, trust, affection)]_vars

\* an interaction completed on the fallback deltas of a message with a
\* strongly negative sentiment and no sign of vulnerability
C30_AffectionLowered ==
    /\ lastInteraction.kind = "processInteraction"
    /\ ~lastInteraction.llmRelEval
    /\ lastInteraction.relUpdates.affection = Number(-2)
    /\ lastInteraction.relUpdates.trust = Number(2)
    /\ lastInteraction.after.affection = lastInteraction.before.affection - 2
    /\ lastInteraction.after.familiarity = lastInteraction.before.familiarity + 10

\* an evolveTrait call made on its own returns
EvolveTraitReturns == evolveCalls' # evolveCalls

\* the call wrote newValue for this trait and logged it with previousValue
TraitChangeLogged(t) ==
    LET previousValue == personality_state.traits[t]
        newValue == personality_state'.traits[t]
    IN  /\ newValue # previousValue
        /\ personality_state' =
              [personality_state EXCEPT
                  !.traits[t] = newValue,
                  !.evolution = Append(@, [trait_name |-> t, trait_value |-> newValue,
                                           previous_value |-> previousValue])]

\* C31: an evolveTrait call either writes nothing at all (unknown trait, or a
\* clamped change below 0.001), or writes one trait and appends exactly one
\* personality_evolution row holding the previous and the new value; the
\* history never shrinks, and the mood and its start time stay as they are.
C31_EvolveLogsOrNothing ==
    [][EvolveTraitReturns =>
          /\ personality_state'.current_mood = personality_state.current_mood
          /\ mood_started_at' = mood_started_at
          /\ \/ personality_state' = personality_state
             \/ \E t \in DOMAIN PersonalityDimensions : TraitChangeLogged(t)]_vars

\* C32: the current mood is one of the moods of the catalog, whatever names
\* setMood was called with.
C32_MoodInCatalog == personality_state.current_mood \in Moods

\* how many times the search ran updateMemoryAccess for this memory
AccessRaised(id) ==
    Cardinality({i \in DOMAIN lastSearch.accessed : lastSearch.accessed[i] = id})

\* C33: searchMemories raises access_count by exactly 1 for each memory it
\* returns, and for no other memory.
C33_AccessCountedPerResult ==
    lastSearch.fn = "searchMemories" =>
        \A id \in DOMAIN semantic_memories :
            AccessRaised(id) =
                IF \E i \in DOMAIN lastSearch.results : lastSearch.results[i] = id
                THEN 1 ELSE 0

\* the entries of the last call's result that are (or are not) of priority users
AmbientGroup(priority) ==
    SelectSeq(lastAmbient.result, LAMBDA e : e.isPriority = priority)

\* the entries are in most-recent-first order
MostRecentFirst(entries) ==
    \A i, j \in DOMAIN entries :
        i < j => entries[i].discord_created_at > entries[j].discord_created_at

\* C34: getAmbientContext returns the entries of the mentioned users before
\* every other entry, and the entries of each of the two groups
\* most-recent-first.
C34_PriorityFirstThenRecency ==
    lastAmbient.kind = "result" =>
        /\ lastAmbient.result = AmbientGroup(TRUE) \o AmbientGroup(FALSE)
        /\ \A e \in {lastAmbient.result[i] : i \in DOMAIN lastAmbient.result} :
              e.isPriority <=> e.authorId \in lastAmbient.mentionedUserIds
        /\ MostRecentFirst(AmbientGroup(TRUE))
        /\ MostRecentFirst(AmbientGroup(FALSE))

\* C35: a search of the memories for a user returns only memories that the
\* user owns or that have no owner, whichever user's search filled the cache.
C35_SearchIsolatedByUser ==
    (lastSearch.fn = "searchMemories" /\ lastSearch.scope # Null)
        => \A i \in 1..Len(lastSearch.results) :
              semantic_memories[lastSearch.results[i]].user_id \in {Null, lastSearch.scope}

\* a search for u1 has returned a memory from a cache that holds a memory of u2
C35_SearchOverOthersCache ==
    /\ lastSearch.fn = "searchMemories"
    /\ lastSearch.scope = "u1"
    /\ lastSearch.embedded
    /\ lastSearch.results # <<>>
    /\ \E i \in 1..Len(embeddingCache) : embeddingCache[i].userId = "u2"

\* C36: once stopProcessor() has returned, and until the next
\* startProcessor(), no timer starts a processBatch, the delayed first run
\* of startProcessor included.  processorInterval is unset exactly before
\* the first start and between a stop and the next start, and only a
\* timer's callback takes a timeout off the pending ones.
C36_NoTimerRunAfterStop ==
    [][~processorInterval => pendingTimeouts' >= pendingTimeouts]_vars

\* C37: a call of ingestMessage that returns { skipped: true, reason: 'error' }
\* has added no message and no queue item.
C37_FailedIngestStoresNothing ==
    [][ingestResult'.returned = Skipped("error")
          => /\ server_messages' = server_messages
             /\ embedding_queue' = embedding_queue]_vars

\* C38: calls of processInteraction for one user that overlap lose no
\* update: each call, when it completes, applies its update to the row as
\* the calls that completed before it left it, so the interaction count
\* rises by one for each call and the numbers carry the deltas of each.
C38_OverlappingUpdatesApplied ==
    lastInteraction.kind = "processInteraction"
        => lastInteraction.after = newRel(lastInteraction.before, lastInteraction.relUpdates)

\* a call that read an interaction count of 0 at its start has completed
\* after another call that was suspended with it, and the count is 2
C38_SecondOfTwoCompleted ==
    /\ lastInteraction.kind = "processInteraction"
    /\ lastInteraction.startedAt = 0
    /\ lastInteraction.before.interaction_count = 1
    /\ lastInteraction.after.interaction_count = 2

StageRank(stage) ==
    CASE stage = "stranger" -> 0
      [] stage = "acquaintance" -> 1
      [] stage = "regular" -> 2
      [] stage = "friend" -> 3
      [] stage = "closeFriend" -> 4
      [] stage = "family" -> 5

\* C39: a processInteraction call, with the relationship evaluator's answer
\* or without it, never lowers the user's familiarity and never moves the
\* relationship stage to an earlier one.
C39_FamiliarityNeverDecreases ==
    [][Len(interactions') < Len(interactions)
          => \A u \in Users :
                LET before == getRelationship(user_relationships, u)
                    after == getRelationship(user_relationships', u)
                IN  /\ after.familiarity >= before.familiarity
                    /\ StageRank(after.stage) >= StageRank(before.stage)
                    /\ after.relationship_stage = after.stage]_vars

\* the evaluator's answer was used and familiarity rose by the least step
C39_FamiliarityRoseByFloor ==
    /\ lastInteraction.kind = "processInteraction"
    /\ lastInteraction.llmRelEval
    /\ lastInteraction.relUpdates.familiarity = Number(5)
    /\ lastInteraction.after.familiarity = lastInteraction.before.familiarity + 5

\* C40: once stopScheduler() has returned, no timer that stems from a
\* startScheduler call made before it triggers a summary run: the timer
\* behind every run stems from a start made after the last stop.
C40_NoRunAfterStop ==
    lastRun.fired => lastRun.epoch = lastRun.stops

====
